---- MODULE Spec2Model ----
(***************************************************************************)
(* Model of the smart-search-document backend: the in-memory vector store  *)
(* (backend/src/utils/vectorStore.ts), the document and upload routes, the *)
(* search route router.post('/') of routes/search.ts and the text          *)
(* functions normalizeTextForMatching and chunkText.                       *)
(*                                                                         *)
(* Texts are TLA+ strings.  JavaScript regular expressions are written as  *)
(* syntax trees (lit, cls, rep, cat, alt, anchors) and evaluated by Ends,  *)
(* the set of positions at which a match that starts at a position can     *)
(* end.  A /.../i expression is a tree with lower-case literals applied to *)
(* the lower-cased text.  Scores are integers in units of 1/Scale, so the  *)
(* sums of the scorer are exact where the program rounds in binary         *)
(* floating point.                                                         *)
(***************************************************************************)
EXTENDS Integers, Sequences, FiniteSets, TLC

VARIABLES store, pending, concurrent, last, analysis, upload, call

vars == <<store, pending, concurrent, last, analysis, upload, call>>

-----------------------------------------------------------------------------
(* Characters and strings *)

LowerAlpha == "abcdefghijklmnopqrstuvwxyz"

UpperAlpha == "ABCDEFGHIJKLMNOPQRSTUVWXYZ"

DigitAlpha == "0123456789"

CharsOf(s) == { SubSeq(s, k, k) : k \in 1..Len(s) }

LowerChars == CharsOf(LowerAlpha)

UpperChars == CharsOf(UpperAlpha)

DigitChars == CharsOf(DigitAlpha)

\* \w of a JavaScript regular expression
WordChars == LowerChars \cup UpperChars \cup DigitChars \cup {"_"}

\* \s of a JavaScript regular expression (the characters the texts use)
SpaceChars == {" ", "\n", "\t", "\r"}

CharAt(s, i) == IF i >= 1 /\ i <= Len(s) THEN SubSeq(s, i, i) ELSE ""

Min(S) == CHOOSE a \in S : \A b \in S : a <= b

Max(S) == CHOOSE a \in S : \A b \in S : a >= b

\* the elements of a finite set of integers in increasing order
SortedSeq(S) == [k \in 1..Cardinality(S) |-> CHOOSE a \in S : Cardinality({b \in S : b < a}) = k - 1]

toLowerCaseChar ==
  [c \in UpperChars |-> LET k == CHOOSE k \in 1..26 : SubSeq(UpperAlpha, k, k) = c
                        IN SubSeq(LowerAlpha, k, k)]

toUpperCaseChar ==
  [c \in LowerChars |-> LET k == CHOOSE k \in 1..26 : SubSeq(LowerAlpha, k, k) = c
                        IN SubSeq(UpperAlpha, k, k)]

LowerCh(c) == IF c \in UpperChars THEN toLowerCaseChar[c] ELSE c

UpperCh(c) == IF c \in LowerChars THEN toUpperCaseChar[c] ELSE c

RECURSIVE toLowerCase(_)
toLowerCase(s) ==
  IF Len(s) = 0 THEN ""
  ELSE IF Len(s) = 1 THEN LowerCh(s)
  ELSE LET h == Len(s) \div 2
       IN toLowerCase(SubSeq(s, 1, h)) \o toLowerCase(SubSeq(s, h + 1, Len(s)))

\* String.prototype.trim
trim(s) ==
  LET keep == {i \in 1..Len(s) : SubSeq(s, i, i) \notin SpaceChars}
  IN IF keep = {} THEN "" ELSE SubSeq(s, Min(keep), Max(keep))

\* String.prototype.includes
includes(s, sub) ==
  \E i \in 1..(Len(s) - Len(sub) + 1) : SubSeq(s, i, i + Len(sub) - 1) = sub

\* String.prototype.indexOf (0-based, -1 when absent)
indexOf(s, sub) ==
  LET at == {i \in 1..(Len(s) - Len(sub) + 1) : SubSeq(s, i, i + Len(sub) - 1) = sub}
  IN IF at = {} THEN -1 ELSE Min(at) - 1

endsWith(s, suf) == Len(s) >= Len(suf) /\ SubSeq(s, Len(s) - Len(suf) + 1, Len(s)) = suf

\* s.replace(/suf$/, rep)
replaceSuffix(s, suf, rep) ==
  IF endsWith(s, suf) THEN SubSeq(s, 1, Len(s) - Len(suf)) \o rep ELSE s

\* the maximal runs of characters of s that are in (inSet) or outside (~inSet) cs, in order
Runs(s, cs, inSet) ==
  LET ok(i) == i >= 1 /\ i <= Len(s) /\ ((SubSeq(s, i, i) \in cs) = inSet)
      starts == {i \in 1..Len(s) : ok(i) /\ ~ok(i - 1)}
      endOf(i) == Min({j \in i..Len(s) : ~ok(j + 1)})
      ss == SortedSeq(starts)
  IN [k \in 1..Len(ss) |-> SubSeq(s, ss[k], endOf(ss[k]))]

\* text.split(/\s+/) without the empty strings a leading or trailing blank gives
splitSpaces(s) == Runs(s, SpaceChars, FALSE)

\* text.split('\n')
splitLines(s) ==
  LET nl == {i \in 1..Len(s) : SubSeq(s, i, i) = "\n"}
      starts == {1} \cup {i + 1 : i \in nl}
      endOf(i) == Min({j \in (i - 1)..Len(s) : j = Len(s) \/ SubSeq(s, j + 1, j + 1) = "\n"})
      ss == SortedSeq(starts)
  IN [k \in 1..Len(ss) |-> SubSeq(s, ss[k], endOf(ss[k]))]

\* word.replace(/[^\w]/g, '')
RECURSIVE stripNonWord(_)
stripNonWord(s) ==
  IF Len(s) = 0 THEN ""
  ELSE IF Len(s) = 1 THEN (IF s \in WordChars THEN s ELSE "")
  ELSE LET h == Len(s) \div 2
       IN stripNonWord(SubSeq(s, 1, h)) \o stripNonWord(SubSeq(s, h + 1, Len(s)))

\* words.join(' ')
RECURSIVE joinRange(_, _, _)
joinRange(wl, lo, hi) ==
  IF lo > hi THEN ""
  ELSE IF lo = hi THEN wl[lo]
  ELSE LET h == (lo + hi) \div 2
       IN joinRange(wl, lo, h) \o " " \o joinRange(wl, h + 1, hi)

join(wl) == joinRange(wl, 1, Len(wl))

SeqToSet(sq) == {sq[k] : k \in 1..Len(sq)}

\* Array.prototype.filter
RECURSIVE filterRange(_, _, _, _)
filterRange(sq, keep, lo, hi) ==
  IF lo > hi THEN <<>>
  ELSE IF lo = hi THEN (IF lo \in keep THEN <<sq[lo]>> ELSE <<>>)
  ELSE LET h == (lo + hi) \div 2
       IN filterRange(sq, keep, lo, h) \o filterRange(sq, keep, h + 1, hi)

\* the subsequence of sq at the indices in keep
filterIdx(sq, keep) == filterRange(sq, keep, 1, Len(sq))

-----------------------------------------------------------------------------
(* Regular expressions *)

L(s) == [t |-> "lit", s |-> s]

Cls(set) == [t |-> "cls", set |-> set, neg |-> FALSE]

NCls(set) == [t |-> "cls", set |-> set, neg |-> TRUE]

\* c{lo,hi} for a character class c
Rep(c, lo, hi) == [t |-> "rep", c |-> c, lo |-> lo, hi |-> hi]

Cat(xs) == [t |-> "cat", xs |-> xs]

Alt(xs) == [t |-> "alt", xs |-> xs]

Eps == [t |-> "cat", xs |-> <<>>]

Opt(r) == Alt(<<r, Eps>>)

\* \b
WB == [t |-> "wb"]

\* ^ and $ without the m flag
BOL == [t |-> "bol"]

EOL == [t |-> "eol"]

\* ^ and $ with the m flag
BOLM == [t |-> "bolm"]

EOLM == [t |-> "eolm"]

Unbounded == 1000000

spc == Cls(SpaceChars)

wch == Cls(WordChars)

dig == Cls(DigitChars)

\* . (any character but a line terminator)
dot == NCls({"\n", "\r"})

\* \s+ and \s*
SP == Rep(spc, 1, Unbounded)

SP0 == Rep(spc, 0, Unbounded)

\* .* and .+
DotStar == Rep(dot, 0, Unbounded)

DotPlus == Rep(dot, 1, Unbounded)

\* .{lo,hi}
DotN(lo, hi) == Rep(dot, lo, hi)

\* (w1|w2|...) for a set of literal alternatives
W(set) == [t |-> "lits", set |-> set]

InCls(c, ch) == (ch \in c.set) # c.neg

RunLen(c, s, i) ==
  Min({k \in i..(Len(s) + 1) : k = Len(s) + 1 \/ ~InCls(c, SubSeq(s, k, k))}) - i

RECURSIVE Ends(_, _, _)
RECURSIVE CatEnds(_, _, _, _)
\* the positions at which a match of re that starts at position i of s can end
Ends(re, s, i) ==
  CASE re.t = "lit" -> LET n == Len(re.s)
                       IN IF i + n - 1 <= Len(s) /\ SubSeq(s, i, i + n - 1) = re.s
                          THEN {i + n} ELSE {}
    [] re.t = "lits" -> {i + Len(w) : w \in {w \in re.set : i + Len(w) - 1 <= Len(s)
                                                   /\ SubSeq(s, i, i + Len(w) - 1) = w}}
    [] re.t = "cls" -> IF i <= Len(s) /\ InCls(re, SubSeq(s, i, i)) THEN {i + 1} ELSE {}
    [] re.t = "rep" -> LET m == RunLen(re.c, s, i)
                       IN {i + k : k \in re.lo..(IF m < re.hi THEN m ELSE re.hi)}
    [] re.t = "cat" -> CatEnds(re.xs, 1, s, {i})
    [] re.t = "alt" -> UNION {Ends(re.xs[k], s, i) : k \in 1..Len(re.xs)}
    [] re.t = "wb" -> IF (CharAt(s, i - 1) \in WordChars) # (CharAt(s, i) \in WordChars)
                      THEN {i} ELSE {}
    [] re.t = "bol" -> IF i = 1 THEN {i} ELSE {}
    [] re.t = "eol" -> IF i = Len(s) + 1 THEN {i} ELSE {}
    [] re.t = "bolm" -> IF i = 1 \/ CharAt(s, i - 1) = "\n" THEN {i} ELSE {}
    [] re.t = "eolm" -> IF i = Len(s) + 1 \/ CharAt(s, i) = "\n" THEN {i} ELSE {}

CatEnds(xs, k, s, ps) ==
  IF k > Len(xs) \/ ps = {} THEN ps
  ELSE CatEnds(xs, k + 1, s, UNION {Ends(xs[k], s, p) : p \in ps})

MatchStarts(re, s) == {i \in 1..(Len(s) + 1) : Ends(re, s, i) # {}}

\* RegExp.prototype.test for an expression without the i flag
testCS(re, s) == \E i \in 1..(Len(s) + 1) : Ends(re, s, i) # {}

\* RegExp.prototype.test for an expression with the i flag
test(re, s) == testCS(re, toLowerCase(s))

\* String.prototype.search for an expression with the i flag (0-based, -1 when absent)
search(re, s) ==
  LET at == MatchStarts(re, toLowerCase(s))
  IN IF at = {} THEN -1 ELSE Min(at) - 1

\* patterns.some(p => p.test(s))
some(res, s) == LET ls == toLowerCase(s) IN \E k \in 1..Len(res) : testCS(res[k], ls)

\* text.replace(/[.*+?^${}()|[\]\\]/g, '\\$&') followed by new RegExp(...): the
\* escaped text matches itself literally
escaped(text) == L(toLowerCase(text))

-----------------------------------------------------------------------------
(* Text normalizer *)

\* .replace(/[^\w\s]/g, ' ')
RECURSIVE punctToSpace(_)
punctToSpace(s) ==
  IF Len(s) = 0 THEN ""
  ELSE IF Len(s) = 1 THEN (IF s \in WordChars \cup SpaceChars THEN s ELSE " ")
  ELSE LET h == Len(s) \div 2
       IN punctToSpace(SubSeq(s, 1, h)) \o punctToSpace(SubSeq(s, h + 1, Len(s)))

\* .replace(/\s+/g, ' ') on the characters lo..hi of s
RECURSIVE collapseRange(_, _, _)
collapseRange(s, lo, hi) ==
  IF lo > hi THEN ""
  ELSE IF lo = hi
       THEN (IF SubSeq(s, lo, lo) \in SpaceChars
             THEN (IF CharAt(s, lo - 1) \in SpaceChars THEN "" ELSE " ")
             ELSE SubSeq(s, lo, lo))
       ELSE LET h == (lo + hi) \div 2
            IN collapseRange(s, lo, h) \o collapseRange(s, h + 1, hi)

collapseSpaces(s) == collapseRange(s, 1, Len(s))

\* a normalizer that collapses the white space before it replaces the punctuation
normalizeCollapsingFirst(text) ==
  trim(punctToSpace(collapseSpaces(toLowerCase(text))))

normalizeTextForMatching(text) == trim(collapseSpaces(punctToSpace(toLowerCase(text))))

\* normalized.split(' ').filter(w => w.length > 0)
splitWords(normalized) == Runs(normalized, {" "}, FALSE)

-----------------------------------------------------------------------------
(* Helpers for word and phrase expressions *)

\* \bw\b
Word(w) == Cat(<<WB, L(w), WB>>)

\* \b(w1|w2|...)\b
WordIn(set) == Cat(<<WB, W(set), WB>>)

\* the null of string | null (no entity and no subject is ever the empty string)
Null == ""

capitalized(w) == Len(w) > 0 /\ SubSeq(w, 1, 1) \in UpperChars

-----------------------------------------------------------------------------
(* Step 2.5 of router.post('/'): early intent detection *)

comparisonKeywordsEarly ==
  << Word("difference"),
     Cat(<<WB, L("vs"), Opt(L(".")), WB>>),
     Word("versus"),
     Word("compare"),
     Word("comparison") >>

isComparisonQueryEarly(query) == some(comparisonKeywordsEarly, query)

stopWordsEarly ==
  {"what", "how", "does", "do", "is", "are", "the", "a", "an", "and", "or", "but", "in", "on",
   "at", "to", "for", "of", "with", "by", "from", "as", "use", "uses", "using", "used", "data",
   "ai", "artificial", "intelligence", "machine", "learning", "difference", "between",
   "compare", "comparison", "vs", "versus", "different", "platforms", "agentic"}

\* the first clean word of the query that is longer than 2, capitalized and no stop word
firstEntity(query, stopWords) ==
  LET words == splitSpaces(query)
      clean == [k \in 1..Len(words) |-> stripNonWord(words[k])]
      ok == {k \in 1..Len(words) : /\ Len(clean[k]) > 2
                                   /\ capitalized(clean[k])
                                   /\ toLowerCase(clean[k]) \notin stopWords}
  IN IF ok = {} THEN Null ELSE clean[Min(ok)]

extractEntityEarly(queryText) == firstEntity(queryText, stopWordsEarly)

whatIsRe == Cat(<<BOL, L("what"), SP, L("is"), WB>>)

defineRe == Cat(<<BOL, L("define"), WB>>)

isDefinitionQueryEarly(query) == test(whatIsRe, trim(query)) \/ test(defineRe, trim(query))

\* new RegExp(`\\b${entity}\\b`, 'i')
entityPattern(entity) == Cat(<<WB, escaped(entity), WB>>)

-----------------------------------------------------------------------------
(* Steps 3 to 3.7: query words, intent keywords, primary entity, definition *)

detectIntentKeywords(query, normalizedQuery) ==
  LET queryLower == toLowerCase(query)
      isData == \/ test(Word("data"), queryLower)
                \/ test(Word("data"), normalizedQuery)
                \/ test(Cat(<<WB, L("use"), Opt(L("s")), SP, L("data"), WB>>), queryLower)
                \/ test(Cat(<<WB, L("data"), SP, L("does"), WB>>), queryLower)
                \/ test(Cat(<<WB, L("what"), SP, L("data"), WB>>), queryLower)
      isAI == \/ test(Word("ai"), queryLower)
              \/ test(Word("ai"), normalizedQuery)
              \/ test(Cat(<<WB, L("artificial"), SP, L("intelligence"), WB>>), queryLower)
              \/ test(Cat(<<WB, L("machine"), SP, L("learning"), WB>>), queryLower)
              \/ test(Word("ml"), queryLower)
              \/ test(Cat(<<WB, L("use"), Opt(L("s")), SP, L("ai"), WB>>), queryLower)
              \/ test(Cat(<<WB, L("how"), SP, DotStar, SP, L("use"), Opt(L("s")), SP,
                            L("ai"), WB>>), queryLower)
  IN (IF isData THEN {"data"} ELSE {})
       \cup (IF isAI THEN {"ai", "artificial intelligence", "machine learning"} ELSE {})

stopWords ==
  {"what", "how", "does", "do", "is", "are", "the", "a", "an", "and", "or", "but", "in", "on",
   "at", "to", "for", "of", "with", "by", "from", "as", "use", "uses", "using", "used", "data",
   "ai", "artificial", "intelligence", "machine", "learning"}

\* The second loop drops the test that the first character has a lower-case form, so a
\* clean word starting with a digit or an underscore qualifies there.
extractPrimaryEntity(query) ==
  LET first == firstEntity(query, stopWords)
      words == splitSpaces(query)
      clean == [k \in 1..Len(words) |-> stripNonWord(words[k])]
      ok == {k \in 1..Len(words) : /\ Len(clean[k]) > 2
                                   /\ SubSeq(clean[k], 1, 1) \notin LowerChars
                                   /\ toLowerCase(clean[k]) \notin stopWords}
  IN IF first # Null THEN first
     ELSE IF ok = {} THEN Null ELSE clean[Min(ok)]

\* query.match(prefix ([^stop]+)): the capture of the group, trimmed; "" when there is no
\* match or the capture is blank
captureAfter(prefix, stop, query) ==
  LET upTo(e, stopAt) == IF stopAt < e THEN "" ELSE trim(SubSeq(query, e, stopAt))
      from(e) == upTo(e, Min({k \in e..(Len(query) + 1) :
                                 k = Len(query) + 1 \/ SubSeq(query, k, k) \in stop}) - 1)
      capture(E) == IF E = {} THEN "" ELSE from(Max(E))
  IN capture(Ends(Cat(<<BOL, prefix, SP>>), toLowerCase(query), 1))

\* subject.replace(/^(a|an|the)\s+/i, '').trim()
stripArticle(subject) ==
  LET strip(E) == IF E = {} THEN trim(subject)
                  ELSE trim(SubSeq(subject, Max(E), Len(subject)))
  IN strip(Ends(Cat(<<BOL, W({"a", "an", "the"}), SP>>), toLowerCase(subject), 1))

skipWords == {"what", "is", "define", "a", "an", "the"}

detectDefinitionQuery(query) ==
  LET isDefinition(queryLower, normalizedQueryLower) ==
        \/ test(whatIsRe, queryLower)
        \/ test(defineRe, queryLower)
        \/ test(whatIsRe, normalizedQueryLower)
        \/ test(defineRe, normalizedQueryLower)
      fromWords(cleaned, queryWords, remaining) ==
        IF Len(cleaned) = 0 /\ Len(queryWords) > 2 /\ Len(remaining) > 0
        THEN join(remaining)
        ELSE cleaned
      remainingOf(queryWords) ==
        filterIdx(queryWords, {k \in 1..Len(queryWords) :
                                 toLowerCase(queryWords[k]) \notin skipWords})
      cleanedSubject(subject0, queryWords) ==
        IF subject0 = Null THEN Null
        ELSE fromWords(stripArticle(subject0), queryWords, remainingOf(queryWords))
      firstOf(whatIsMatch, defineMatch) ==
        IF whatIsMatch # "" THEN whatIsMatch
        ELSE IF defineMatch # "" THEN defineMatch
        ELSE extractPrimaryEntity(query)
      subjectFor(normalizedQuery) ==
        IF isDefinition(trim(toLowerCase(query)), trim(toLowerCase(normalizedQuery)))
        THEN [isDefinition |-> TRUE,
              subject |-> cleanedSubject(
                            firstOf(captureAfter(Cat(<<L("what"), SP, L("is")>>), {"?"}, query),
                                    captureAfter(L("define"), {":", "?"}, query)),
                            splitWords(normalizedQuery))]
        ELSE [isDefinition |-> FALSE, subject |-> Null]
  IN subjectFor(normalizeTextForMatching(query))

-----------------------------------------------------------------------------
(* Step 2.6: section headers and matching comparison sections *)

comparisonSectionKeywords ==
  << Word("difference"),
     Word("compare"),
     Word("comparison"),
     Cat(<<WB, L("vs"), Opt(L(".")), WB>>),
     Word("versus") >>

\* numberedMatch[2] of /^(\d+\.[\d.]*)\s+(.+)$/, "" when the line does not match
numberedTitle(trimmedLine) ==
  LET E == Ends(Cat(<<BOL, Rep(dig, 1, Unbounded), L("."),
                      Rep(Cls(DigitChars \cup {"."}), 0, Unbounded), SP>>), trimmedLine, 1)
      rest == SubSeq(trimmedLine, Max(E), Len(trimmedLine))
  IN IF E = {} THEN ""
     ELSE IF Len(rest) = 0 \/ includes(rest, "\r") THEN ""
     ELSE rest

\* 2 to 15 words of which at least half are capitalized
isTitleCase(trimmedLine) ==
  LET words == splitSpaces(trimmedLine)
      capitalizedWords == {k \in 1..Len(words) : capitalized(words[k])}
  IN Len(words) >= 2 /\ Len(words) <= 15 /\ 2 * Cardinality(capitalizedWords) >= Len(words)

\* the title of the section header in a line, "" when the line is no header
sectionTitle(line) ==
  LET trimmedLine == trim(line)
  IN IF Len(trimmedLine) = 0 \/ Len(trimmedLine) > 120 THEN ""
     ELSE IF numberedTitle(trimmedLine) # "" THEN numberedTitle(trimmedLine)
     ELSE IF isTitleCase(trimmedLine) THEN trimmedLine
     ELSE ""

titleMatches(entity, title) ==
  test(entityPattern(entity), title) /\ some(comparisonSectionKeywords, title)

\* What the header scan of one chunk does to currentSectionIsMatch and foundMatchingSection:
\* whether the chunk has a header line, whether its last header line is a matching one, and
\* whether any of its header lines is.
sectionScan(entity, chunkText) ==
  LET lines == splitLines(chunkText)
      headers == {k \in 1..Len(lines) : sectionTitle(lines[k]) # ""}
  IN [hasHeader |-> headers # {},
      lastIsMatch |-> headers # {} /\ titleMatches(entity, sectionTitle(lines[Max(headers)])),
      anyMatch |-> \E k \in headers : titleMatches(entity, sectionTitle(lines[k]))]

-----------------------------------------------------------------------------
(* Step 2.7: comparison sections, overview chunks *)

comparisonSectionHeaderPattern ==
  Cat(<<WB, Alt(<<W({"difference", "compare", "comparison", "versus"}),
                  Cat(<<L("vs"), Opt(L("."))>>)>>), WB>>)

anySectionHeaderPattern == Cat(<<BOL, Rep(dig, 1, Unbounded), L("."), SP>>)

overviewScopePatterns ==
  << Cat(<<WB, L("provides"), SP, L("a"), SP, L("detailed"), SP, L("understanding"), WB>>),
     Cat(<<WB, L("covers"), SP, L("its"), SP, L("purpose"), WB>>),
     Cat(<<WB, L("this"), SP, L("document"), SP, L("provides"), WB>>),
     Cat(<<WB, L("platform"), SP, L("overview"), WB>>),
     Cat(<<WB, L("this"), SP, L("document"), SP, L("covers"), WB>>),
     Cat(<<WB, L("this"), SP, L("document"), SP, L("explains"), WB>>),
     Cat(<<WB, L("overview"), SP, L("of"), SP>>),
     Cat(<<WB, L("introduction"), SP, L("to"), SP>>),
     Cat(<<WB, L("covering"), SP, W({"its", "the"}), SP>>),
     Cat(<<WB, L("detailed"), SP, L("understanding"), SP, L("of"), WB>>) >>

topicListingPatterns ==
  << Cat(<<L("purpose"), DotStar, L("architecture"), DotStar, L("ai"), DotStar,
           L("differentiation")>>),
     Cat(<<L("covering"), DotStar, L("purpose"), DotStar, L("architecture")>>),
     Cat(<<WB, L("purpose"), WB, DotStar, WB, L("architecture"), WB, DotStar, WB, L("ai"),
           WB>>) >>

isOverviewOrScope(text) == some(overviewScopePatterns, text) \/ some(topicListingPatterns, text)

hasComparisonSectionHeader(text) ==
  LET lines == splitLines(text)
  IN \E k \in 1..Len(lines) : /\ test(anySectionHeaderPattern, trim(lines[k]))
                              /\ test(comparisonSectionHeaderPattern, trim(lines[k]))

startsWithNewSectionHeader(text) ==
  LET lines == splitLines(text)
      nonEmpty == {k \in 1..Len(lines) : Len(trim(lines[k])) > 0}
      firstLine == trim(lines[Min(nonEmpty)])
  IN /\ nonEmpty # {}
     /\ test(anySectionHeaderPattern, firstLine)
     /\ ~test(comparisonSectionHeaderPattern, firstLine)

-----------------------------------------------------------------------------
(* Step 6: the patterns of candidate scoring *)

comparisonQueryKeywords == comparisonKeywordsEarly

isComparisonQueryForScoring(query) == some(comparisonQueryKeywords, query)

contrastLanguagePatterns ==
  << Word("while"),
     Word("whereas"),
     Cat(<<WB, L("in"), SP, L("contrast"), WB>>),
     Cat(<<WB, L("compared"), SP, L("to"), WB>>),
     Word("unlike"),
     Cat(<<WB, L("rather"), SP, L("than"), WB>>),
     Cat(<<WB, L("on"), SP, L("the"), SP, L("other"), SP, L("hand"), WB>>),
     Word("however"),
     Word("but"),
     Cat(<<WB, L("instead"), SP, L("of"), WB>>) >>

vsDot == Cat(<<L("vs"), Opt(L("."))>>)

whileWhereas == W({"while", "whereas"})

whileWhereasVs == Alt(<<W({"while", "whereas"}), vsDot>>)

dualFramingPatterns ==
  << Cat(<<L("celonis"), SP, DotStar, SP, W({"while", "whereas", "but"}), SP, DotStar, SP,
           L("agentic")>>),
     Cat(<<L("celonis"), SP, DotStar, SP, W({"while", "whereas", "but"}), SP, DotStar, SP,
           L("platform")>>),
     Cat(<<L("what"), SP, L("should"), SP, DotStar, SP, vsDot, SP, L("how"), SP, L("to")>>),
     Cat(<<L("problem"), SP, DotStar, SP, whileWhereasVs, SP, DotStar, SP,
           W({"solution", "execution", "task"})>>),
     Cat(<<L("discover"), DotStar, SP, whileWhereasVs, SP, DotStar, SP, L("execut")>>),
     Cat(<<L("identify"), DotStar, SP, whileWhereasVs, SP, DotStar, SP, L("automat")>>) >>

explicitDualEntityPatterns ==
  << Cat(<<L("celonis"), SP, DotN(5, 80), SP, whileWhereas, SP, DotN(0, 20), L("agentic"), SP,
           L("platform")>>),
     Cat(<<L("celonis"), SP, W({"answers", "focuses", "discovers", "finds", "identifies"}),
           DotN(5, 60), whileWhereas, DotN(0, 30), L("agentic")>>),
     Cat(<<L("agentic"), SP, L("platform"), DotN(5, 60), whileWhereas, DotN(0, 30),
           L("celonis")>>),
     Cat(<<L("celonis"), DotN(10, 80), L("in"), SP, L("contrast"), DotN(0, 30),
           L("agentic")>>),
     Cat(<<L("unlike"), SP, L("agentic"), SP, L("platform"), DotN(0, 30), L("celonis")>>),
     Cat(<<L("discover"), Opt(L("s")), SP, L("and"), SP, L("prioritiz"), DotN(0, 30),
           whileWhereas, DotN(0, 30), L("automat")>>),
     Cat(<<L("find"), Opt(L("s")), SP, L("problem"), Opt(L("s")), DotN(0, 30), whileWhereas,
           DotN(0, 30), L("execut")>>),
     Cat(<<L("what"), SP, L("should"), SP, DotN(0, 30), whileWhereasVs, DotN(0, 30), L("how"),
           SP, L("to")>>),
     Cat(<<L("problem"), SP, L("discovery"), DotN(0, 30), whileWhereasVs, DotN(0, 30),
           L("task"), SP, L("execution")>>),
     Cat(<<L("prioritiz"), DotN(0, 30), L("problem"), DotN(0, 30), whileWhereas, DotN(0, 30),
           L("automat")>>) >>

introPatternsForPosition ==
  << Cat(<<L("this"), SP, L("document"), SP, L("provides")>>),
     Cat(<<L("detailed"), SP, L("understanding")>>),
     Cat(<<L("covering"), SP, W({"its", "the"})>>),
     Cat(<<L("this"), SP, W({"document", "guide", "manual"}), SP,
           W({"provides", "covers", "explains"})>>) >>

isIntroChunkForPosition(text) == some(introPatternsForPosition, text)

introPatterns ==
  introPatternsForPosition \o
  << Cat(<<L("overview"), SP, L("of")>>),
     Cat(<<BOL, L("this"), SP, W({"document", "guide", "manual"})>>) >>

isIntroChunk(text) == some(introPatterns, text)

hasContrastLanguage(text) == some(contrastLanguagePatterns, text)

hasDualFraming(text) == some(dualFramingPatterns, text)

hasExplicitDualEntity(text) == some(explicitDualEntityPatterns, text)

mentionsBothEntities(text) ==
  test(Word("celonis"), toLowerCase(text)) /\ test(Word("agentic"), toLowerCase(text))

hasAnyComparisonTerms(text) ==
  \/ hasContrastLanguage(text) \/ hasDualFraming(text) \/ hasExplicitDualEntity(text)
  \/ test(Word("difference"), toLowerCase(text))
  \/ test(Cat(<<WB, L("compare")>>), toLowerCase(text))
  \/ test(Cat(<<WB, vsDot, WB>>), toLowerCase(text))

headerPatterns ==
  << Cat(<<Rep(dig, 1, Unbounded), L("."), SP0, L("difference"), SP, L("between")>>),
     Cat(<<Rep(dig, 1, Unbounded), L("."), SP0, L("difference"), SP>>),
     Cat(<<Rep(dig, 1, Unbounded), L("."), SP0, L("compare")>>),
     Cat(<<Rep(dig, 1, Unbounded), L("."), SP0, L("comparison")>>),
     Cat(<<Rep(dig, 1, Unbounded), L("."), SP0, Rep(NCls({"\n"}), 0, Unbounded), SP, vsDot,
           SP>>) >>

\* Scores are carried as integers: a score x of the code is the integer x * Scale.
Scale == 25200

\* x hundredths as a score
Hundredths(x) == x * (Scale \div 100)

\* the comparison bonus of a chunk text
comparisonBonusOf(text) ==
  IF hasExplicitDualEntity(text) THEN Hundredths(60)
  ELSE IF (hasContrastLanguage(text) \/ hasDualFraming(text)) /\ mentionsBothEntities(text)
       THEN Hundredths(40)
  ELSE IF hasContrastLanguage(text) \/ hasDualFraming(text) THEN Hundredths(20)
  ELSE Hundredths(-40)

\* the penalty for a comparison header that appears late in the chunk: the first of the
\* header patterns that matches decides
headerPenaltyOf(text) ==
  LET hits == {k \in 1..Len(headerPatterns) : test(headerPatterns[k], text)}
      headerPosition == search(headerPatterns[Min(hits)], text)
  IN IF hits = {} THEN 0
     ELSE IF 2 * headerPosition > Len(text) THEN Hundredths(-120)
     ELSE IF 10 * headerPosition > 3 * Len(text) THEN Hundredths(-60)
     ELSE 0

-----------------------------------------------------------------------------
(* Step 6: keyword matching *)

\* queryWord.replace(/s$/, '').replace(/es$/, '').replace(/ies$/, 'y')
stemOf(word) == replaceSuffix(replaceSuffix(replaceSuffix(word, "s", ""), "es", ""), "ies", "y")

\* whether the query word is found in the normalized chunk text, whole or by its stem
wordFound(queryWord, normalizedChunkText) ==
  LET chunkWords == splitSpaces(normalizedChunkText)
      wordStem == stemOf(queryWord)
  IN \/ test(Word(queryWord), normalizedChunkText)
     \/ \E k \in 1..Len(chunkWords) :
          \/ chunkWords[k] = queryWord
          \/ (stemOf(chunkWords[k]) = wordStem /\ Len(wordStem) > 3)

foundWords(queryWords, chunkText) ==
  Cardinality({k \in 1..Len(queryWords) :
                 wordFound(queryWords[k], normalizeTextForMatching(chunkText))})

\* whether the chunk contains one of the intent keywords explicitly
hasExplicitTerm(intentKeywords, chunkText) ==
  LET chunkTextLower == toLowerCase(chunkText)
      normalizedChunkTextLower == toLowerCase(normalizeTextForMatching(chunkText))
  IN \E kw \in intentKeywords :
       IF includes(kw, " ")
       THEN includes(chunkTextLower, kw) \/ includes(normalizedChunkTextLower, kw)
       ELSE test(Word(kw), chunkTextLower) \/ test(Word(kw), normalizedChunkTextLower)

-----------------------------------------------------------------------------
(* Step 6: definition bonus and penalty *)

theArticle == W({"a", "an", "the"})

\* new RegExp(`${escapedSubjectLower}\\s+is\\s+(a|an|the)`, 'i')
hasDefinitionPattern(subject, chunkText) ==
  test(Cat(<<escaped(subject), SP, L("is"), SP, theArticle>>), chunkText)

definitionPatterns(subject) ==
  << Cat(<<WB, escaped(subject), SP, L("is"), SP, theArticle, SP>>),
     Cat(<<WB, escaped(subject), SP, L("is"), SP, theArticle, WB>>),
     Cat(<<WB, escaped(subject), Rep(Cls(SpaceChars \cup {",", "-"}), 1, Unbounded),
           theArticle, SP>>),
     Cat(<<escaped(subject), SP, L("is"), SP, theArticle, SP>>) >>

\* beforeMatch.match(/what\s+is\s+[^?]*\?$/i) && afterMatch.length < 30
isQuestionOnly(chunkText, matchIndex) ==
  LET beforeMatch == trim(SubSeq(chunkText, 1, matchIndex))
      afterLength == Min({100, Len(chunkText) - matchIndex})
  IN /\ test(Cat(<<L("what"), SP, L("is"), SP, Rep(NCls({"?"}), 0, Unbounded), L("?"), EOL>>),
             beforeMatch)
     /\ afterLength < 30

\* some definition pattern matches at a place that is not a bare question
hasRealDefinition(subject, chunkText) ==
  \E k \in 1..Len(definitionPatterns(subject)) :
    /\ test(definitionPatterns(subject)[k], chunkText)
    /\ ~isQuestionOnly(chunkText, search(definitionPatterns(subject)[k], chunkText))

\* /what\s+is\s+[^?]*\?/i
hasAnyQuestion(chunkText) ==
  test(Cat(<<L("what"), SP, L("is"), SP, Rep(NCls({"?"}), 0, Unbounded), L("?")>>), chunkText)

\* new RegExp(`what\\s+is\\s+${escapedSubjectLower}[^?]*\\?`, 'i')
hasSubjectQuestion(subject, chunkText) ==
  test(Cat(<<L("what"), SP, L("is"), SP, escaped(subject), Rep(NCls({"?"}), 0, Unbounded),
             L("?")>>), chunkText)

\* what the definition scoring reads from the chunk text
definitionMarks(subject, chunkText) ==
  [real |-> hasRealDefinition(subject, chunkText),
   anyQuestion |-> hasAnyQuestion(chunkText),
   introWithout |-> isIntroChunk(chunkText) /\ ~hasDefinitionPattern(subject, chunkText),
   intro |-> isIntroChunk(chunkText),
   bareQuestion |-> /\ hasSubjectQuestion(subject, chunkText)
                    /\ ~some(definitionPatterns(subject), chunkText)]

\* The definition bonus of a chunk at the position num/den of its document
definitionBonusOf(marks, num, den) ==
  IF 10 * num <= 7 * den /\ marks.real
  THEN (IF 10 * num <= 3 * den THEN Hundredths(100) ELSE Hundredths(80))
         + (IF marks.anyQuestion THEN Hundredths(20) ELSE 0)
  ELSE 0

definitionPenaltyOf(marks, num, den) ==
  IF 10 * num <= 7 * den /\ definitionBonusOf(marks, num, den) = 0 /\ marks.bareQuestion
  THEN (IF marks.intro THEN Hundredths(-150) ELSE Hundredths(-70))
  ELSE IF marks.introWithout THEN Hundredths(-100)
  ELSE 0

-----------------------------------------------------------------------------
(* Step 7: hard exclusion and the tier patterns of definition queries *)

\* \bw1\s+w2\s+...\b for a phrase of words
Phrase(ws) ==
  Cat(<<WB>> \o [k \in 1..(2 * Len(ws) - 1) |-> IF k % 2 = 1 THEN L(ws[(k + 1) \div 2]) ELSE SP]
        \o <<WB>>)

\* \bw\s+(a|b|...)\b
WordThen(w, set) == Cat(<<WB, L(w), SP, W(set), WB>>)

\* \bhow\s+.*\s+w\b and the like
Spread(w1, w2) == Cat(<<WB, L(w1), SP, DotStar, SP, L(w2), WB>>)

architectureIndicators ==
  << Phrase(<<"not", "embedded">>),
     Phrase(<<"sits", "on", "top">>),
     Phrase(<<"connects", "to">>),
     Phrase(<<"integrates", "with">>),
     Phrase(<<"standalone", "platform", "that">>),
     Phrase(<<"standalone", "that">>),
     Phrase(<<"sits", "on", "top", "of">>),
     WordThen("positioned", {"on", "above", "over"}),
     WordThen("layer", {"on", "above", "over"}),
     WordThen("architecture", {"of", "for"}),
     Spread("how", "works"),
     Spread("how", "integrates"),
     WordThen("integration", {"with", "to", "into"}),
     WordThen("deployed", {"on", "to", "in"}),
     Phrase(<<"runs", "on", "top", "of">>),
     Phrase(<<"built", "on", "top", "of">>) >>

comparisonExplanationIndicators ==
  << Phrase(<<"difference", "between">>),
     Phrase(<<"differences", "between">>),
     Cat(<<WB, vsDot, WB>>),
     Word("versus"),
     Phrase(<<"in", "simple", "terms">>),
     Phrase(<<"compared", "to">>),
     WordThen("comparison", {"of", "between", "with"}),
     Word("agentic"),
     Phrase(<<"how", "it", "works">>),
     Spread("how", "works"),
     Word("capabilities"),
     Cat(<<WB, L("use"), SP, L("case"), Opt(L("s")), WB>>),
     Spread("what", "does"),
     Cat(<<WB, L("what"), SP, DotStar, SP, L("can"), SP, L("do"), WB>>),
     Cat(<<WB, L("feature"), Opt(L("s")), SP, W({"of", "include"}), WB>>),
     Cat(<<WB, L("benefit"), Opt(L("s")), SP, W({"of", "include"}), WB>>),
     Cat(<<WB, L("advantage"), Opt(L("s")), SP, W({"of", "over"}), WB>>),
     Cat(<<WB, L("disadvantage"), Opt(L("s")), SP, L("of"), WB>>),
     Phrase(<<"pros", "and", "cons">>),
     WordThen("why", {"use", "choose"}),
     Phrase(<<"when", "to", "use">>),
     Phrase(<<"example", "of">>),
     Cat(<<WB, L("example"), Opt(L("s")), SP, W({"include", "are"}), WB>>) >>

checkArchitectureIndicators(chunkText) == some(architectureIndicators, chunkText)

checkComparisonExplanationIndicators(chunkText) ==
  some(comparisonExplanationIndicators, chunkText)

isBlockedForDefinition(chunkText) ==
  checkArchitectureIndicators(chunkText) \/ checkComparisonExplanationIndicators(chunkText)

\* architectureIndicators.filter(p => p.test(chunkText)).length
archIndicatorCount(chunkText) ==
  Cardinality({k \in 1..Len(architectureIndicators) : test(architectureIndicators[k], chunkText)})

tier1Pattern(subject) == Cat(<<WB, escaped(subject), SP, L("is"), SP, theArticle, SP>>)

hasTier1Pattern(subject, chunkText) == test(tier1Pattern(subject), chunkText)

\* \bsubject\s+is\s+a\s+kind\s+that\b
isAKindThat(subject, kind) ==
  Cat(<<WB, escaped(subject), SP, L("is"), SP, L("a"), SP, L(kind), SP, L("that"), WB>>)

tier2Patterns(subject) ==
  << isAKindThat(subject, "platform"),
     isAKindThat(subject, "solution"),
     isAKindThat(subject, "tool"),
     isAKindThat(subject, "system"),
     isAKindThat(subject, "software"),
     Cat(<<WB, L("overview"), SP, L("of"), SP, escaped(subject), WB>>),
     Cat(<<WB, L("introduction"), SP, L("to"), SP, escaped(subject), WB>>),
     Cat(<<WB, L("introducing"), SP, escaped(subject), WB>>),
     Cat(<<L("this"), SP, L("document"), SP, L("provides"), Rep(NCls({"."}), 0, Unbounded),
           escaped(subject)>>),
     Cat(<<L("this"), SP, L("guide"), SP, W({"provides", "covers", "explains"}),
           Rep(NCls({"."}), 0, Unbounded), escaped(subject)>>),
     Cat(<<WB, L("about"), SP, escaped(subject), WB>>),
     Cat(<<WB, L("what"), SP, L("is"), SP, escaped(subject), Rep(NCls({"?"}), 0, Unbounded),
           L("?"), Rep(NCls({}), 0, Unbounded), escaped(subject), SP, L("is"), SP>>) >>

\* some Tier-2 pattern whose match starts within the first 30% of the chunk text
hasEarlyTier2Pattern(subject, chunkText) ==
  \E k \in 1..Len(tier2Patterns(subject)) :
    /\ test(tier2Patterns(subject)[k], chunkText)
    /\ 10 * search(tier2Patterns(subject)[k], chunkText) <= 3 * Len(chunkText)

subjectPattern(subject) == Cat(<<WB, escaped(subject), WB>>)

-----------------------------------------------------------------------------
(* Data-usage and AI-usage queries *)

\* \bw(s)?\s+w2\b
PluralThen(w, w2) == Cat(<<WB, L(w), Opt(L("s")), SP, L(w2), WB>>)

\* \bw\s+w2(s)?\b
ThenPlural(w, w2) == Cat(<<WB, L(w), SP, L(w2), Opt(L("s")), WB>>)

isDataQueryForComparison(query) ==
  \/ test(Phrase(<<"what", "data">>), query)
  \/ test(Phrase(<<"data", "does">>), query)
  \/ test(PluralThen("use", "data"), query)

isAIQueryForComparison(query) ==
  \/ test(PluralThen("use", "ai"), query)
  \/ test(Phrase(<<"artificial", "intelligence">>), query)
  \/ test(Phrase(<<"machine", "learning">>), query)

dataUsagePatterns ==
  << Phrase(<<"what", "data">>),
     Phrase(<<"data", "does">>),
     PluralThen("use", "data"),
     Phrase(<<"data", "used", "by">>),
     Phrase(<<"what", "kind", "of", "data">>),
     Phrase(<<"type", "of", "data">>),
     ThenPlural("data", "source"),
     ThenPlural("data", "input") >>

aiUsagePatterns ==
  << PluralThen("use", "ai"),
     Phrase(<<"ai", "usage">>),
     Phrase(<<"artificial", "intelligence">>),
     Phrase(<<"machine", "learning">>),
     Cat(<<WB, L("ml"), SP, L("capabilit")>>),
     Cat(<<WB, L("ai"), SP, L("capabilit")>>),
     Cat(<<WB, L("how"), SP, DotStar, SP, L("ai"), WB>>),
     Phrase(<<"what", "ai">>) >>

\* !definitionQuery.isDefinition && dataUsagePatterns.some(pattern => pattern.test(query))
isDataUsageQuery(query, definitionQuery) ==
  ~definitionQuery.isDefinition /\ some(dataUsagePatterns, query)

\* !definitionQuery.isDefinition && !isDataUsageQuery && aiUsagePatterns.some(...)
isAIUsageQuery(query, definitionQuery) ==
  /\ ~definitionQuery.isDefinition
  /\ ~some(dataUsagePatterns, query)
  /\ some(aiUsagePatterns, query)

dataRelatedTerms ==
  << ThenPlural("event", "log"),
     Phrase(<<"event", "data">>),
     ThenPlural("case", "identifier"),
     Phrase(<<"case", "id">>),
     Cat(<<WB, L("activit"), W({"y", "ies"}), WB>>),
     Cat(<<WB, L("timestamp"), Opt(L("s")), WB>>),
     Phrase(<<"enterprise", "data">>),
     Phrase(<<"operational", "data">>),
     Phrase(<<"transaction", "data">>),
     Phrase(<<"process", "data">>),
     ThenPlural("data", "extract"),
     ThenPlural("data", "connector") >>

\* /\bwhat\s+is\s+\w+\?\s*$/im
bareQuestionLine ==
  Cat(<<WB, L("what"), SP, L("is"), SP, Rep(wch, 1, Unbounded), L("?"), SP0, EOLM>>)

introChunkIndicators ==
  << Phrase(<<"this", "document", "provides">>),
     Phrase(<<"platform", "overview">>),
     Phrase(<<"detailed", "understanding">>),
     Phrase(<<"covering", "its", "purpose">>),
     bareQuestionLine >>

aiRelatedTerms ==
  << Word("ai"),
     Phrase(<<"artificial", "intelligence">>),
     Phrase(<<"machine", "learning">>),
     Word("ml"),
     Cat(<<WB, L("predict"), Opt(W({"s", "ion", "ive", "ing"})), WB>>),
     Cat(<<WB, L("pattern"), Opt(L("s")), WB>>),
     Phrase(<<"root", "cause">>),
     Cat(<<WB, L("anomal"), W({"y", "ies"}), WB>>),
     Word("automation"),
     Cat(<<WB, L("algorithm")>>),
     Cat(<<WB, L("model"), Opt(W({"s", "ing"})), WB>>),
     Cat(<<WB, L("insight"), Opt(L("s")), WB>>) >>

\* The dash class of the last expression holds an en dash and a hyphen in the code; the
\* strings of this module are ASCII, so the class is the hyphen here.
introChunkIndicatorsAI ==
  introChunkIndicators \o
  << Cat(<<BOLM, L("celonis"), SP, L("-"), SP, L("platform"), SP, L("overview")>>) >>

\* the filter predicate of dataRelatedCandidates
isDataRelated(chunkText) ==
  some(dataRelatedTerms, chunkText) /\ ~some(introChunkIndicators, chunkText)

\* the filter predicate of aiRelatedCandidates
isAIRelated(chunkText) ==
  some(aiRelatedTerms, chunkText) /\ ~some(introChunkIndicatorsAI, chunkText)

-----------------------------------------------------------------------------
(* Topic coverage gate *)

topicStopWords ==
  {"what", "how", "where", "when", "why", "who", "which", "whom",
   "is", "are", "was", "were", "be", "been", "being",
   "have", "has", "had", "do", "does", "did", "done",
   "the", "a", "an", "and", "or", "but", "in", "on", "at", "to", "for",
   "of", "with", "by", "from", "as", "into", "through", "during",
   "can", "could", "will", "would", "shall", "should", "may", "might", "must",
   "this", "that", "these", "those", "it", "its",
   "i", "you", "he", "she", "we", "they", "me", "him", "her", "us", "them",
   "my", "your", "his", "our", "their",
   "about", "after", "before", "between", "under", "over", "above", "below",
   "all", "any", "both", "each", "few", "more", "most", "other", "some",
   "such", "no", "not", "only", "same", "so", "than", "too", "very",
   "just", "also", "now", "here", "there", "then", "once",
   "explain", "tell", "show", "give", "find", "get", "make", "know",
   "actually", "really", "please", "help"}

\* queryWords.filter(...) of the gate: no stop word, not the entity, at least 3 characters
topicWordsOf(queryWords, primaryEntity) ==
  filterIdx(queryWords, {k \in 1..Len(queryWords) :
                           /\ toLowerCase(queryWords[k]) \notin topicStopWords
                           /\ ~(primaryEntity # Null
                                /\ toLowerCase(queryWords[k]) = toLowerCase(primaryEntity))
                           /\ Len(queryWords[k]) >= 3})

\* topicWord.replace(/s$/, '').replace(/es$/, '').replace(/ing$/, '').replace(/ed$/, '')
topicStemOf(word) ==
  replaceSuffix(replaceSuffix(replaceSuffix(replaceSuffix(word, "s", ""), "es", ""), "ing", ""),
                "ed", "")

\* wordPattern.test(text) || (stemPattern && stemPattern.test(text))
topicWordIn(topicWord, text) ==
  \/ test(Word(topicWord), text)
  \/ (Len(topicStemOf(topicWord)) > 3 /\ test(Cat(<<WB, L(topicStemOf(topicWord))>>), text))

-----------------------------------------------------------------------------
(* extractSnippetFromPhraseIndex: the section or paragraph around a phrase *)

\* String.prototype.substring with 0-based indices
substring(s, from, to) ==
  LET clamp(x) == IF x < 0 THEN 0 ELSE IF x > Len(s) THEN Len(s) ELSE x
      cut(a, b) == IF a <= b THEN SubSeq(s, a + 1, b) ELSE SubSeq(s, b + 1, a)
  IN cut(clamp(from), clamp(to))

\* the 0-based indices at which sub occurs in s
indexesOf(s, sub) ==
  {i - 1 : i \in {i \in 1..(Len(s) - Len(sub) + 1) : SubSeq(s, i, i + Len(sub) - 1) = sub}}

\* String.prototype.indexOf(sub, from)
indexOfFrom(s, sub, from) ==
  LET at == {i \in indexesOf(s, sub) : i >= from}
  IN IF at = {} THEN -1 ELSE Min(at)

\* String.prototype.lastIndexOf
lastIndexOf(s, sub) == IF indexesOf(s, sub) = {} THEN -1 ELSE Max(indexesOf(s, sub))

\* the first index at or after i that holds no white space: while (/\s/.test(text[i])) i++
skipWhitespace(s, i) ==
  Min({k \in i..Len(s) : k = Len(s) \/ SubSeq(s, k + 1, k + 1) \notin SpaceChars} \cup {Max({i, Len(s)})})

\* the 0-based start indices of the matches of [...s.matchAll(re)]: the matches are taken
\* from left to right and do not overlap
RECURSIVE matchAllFrom(_, _, _)
matchAllFrom(re, s, from) ==
  LET starts == {i \in MatchStarts(re, s) : i >= from}
      next(i) == {i - 1} \cup matchAllFrom(re, s, Max({Max(Ends(re, s, i)), i + 1}))
  IN IF starts = {} THEN {} ELSE next(Min(starts))

matchAll(re, s) == matchAllFrom(re, s, 1)

\* String.prototype.search for an expression without the i flag
searchCS(re, s) == IF MatchStarts(re, s) = {} THEN -1 ELSE Min(MatchStarts(re, s)) - 1

\* /\n\s*\d+\.\s/
numberedSectionPattern == Cat(<<L("\n"), SP0, Rep(dig, 1, Unbounded), L("."), spc>>)

\* the role title patterns as new RegExp(pattern.source, 'g') reads them: without the i flag
roleTitlePatterns ==
  << Cat(<<L("\n"), Opt(W({"Sr.", "Senior", "Junior", "Trainee", "Intern"})), SP0,
           Opt(W({"Software", "Senior", "Lead", "Principal"})), SP0,
           W({"Engineer", "Developer", "Manager", "Analyst"})>>),
     Cat(<<L("\n"), Cls(UpperChars), Rep(Cls(LowerChars), 1, Unbounded), SP,
           W({"Engineer", "Developer", "Manager", "Analyst", "Designer"})>>) >>

\* the role title patterns with the i flag, for the lower-cased text
nextRoleTitlePatterns ==
  << Cat(<<L("\n"), Opt(W({"sr.", "senior", "junior", "trainee", "intern"})), SP0,
           Opt(W({"software", "senior", "lead", "principal"})), SP0,
           W({"engineer", "developer", "manager", "analyst"})>>),
     Cat(<<L("\n"), Cls(LowerChars), Rep(Cls(LowerChars), 1, Unbounded), SP,
           W({"engineer", "developer", "manager", "analyst", "designer"})>>) >>

\* /^(Sr\.|...)?\s*(Software|...)?\s*(Engineer|Developer|Manager|Analyst)/i
roleTitleAtStart ==
  Cat(<<Opt(W({"sr.", "senior", "junior", "trainee", "intern"})), SP0,
        Opt(W({"software", "senior", "lead", "principal"})), SP0,
        W({"engineer", "developer", "manager", "analyst"})>>)

\* sectionBreakIndex after the look back: the last numbered section, the last double
\* newline and the last role title, the one closest to the phrase
sectionBreakIndexOf(lookBackText, lookBackStart) ==
  LET closer(sectionBreakIndex, index) ==
        IF sectionBreakIndex = -1 \/ index > sectionBreakIndex THEN index
        ELSE sectionBreakIndex
      numbered(matches) == IF matches = {} THEN -1 ELSE lookBackStart + Max(matches)
      double(sectionBreakIndex, lastDoubleNewline) ==
        IF lastDoubleNewline # -1
        THEN closer(sectionBreakIndex, lookBackStart + lastDoubleNewline + 2)
        ELSE sectionBreakIndex
      role(sectionBreakIndex, matches) ==
        IF matches # {} THEN closer(sectionBreakIndex, lookBackStart + Max(matches))
        ELSE sectionBreakIndex
  IN role(role(double(numbered(matchAll(numberedSectionPattern, lookBackText)),
                      lastIndexOf(lookBackText, "\n\n")),
               matchAll(roleTitlePatterns[1], lookBackText)),
          matchAll(roleTitlePatterns[2], lookBackText))

\* snippetStart: the section break before the phrase, or the last newline or period
\* before it, or 100 characters before it
snippetStartOf(originalText, phraseIndex) ==
  LET fallback(lookBackStart, lastNewline, lastPeriod) ==
        IF lastNewline = -1 /\ lastPeriod = -1 THEN Max({0, phraseIndex - 100})
        ELSE skipWhitespace(originalText, lookBackStart + Max({lastNewline, lastPeriod}) + 1)
      start(lookBackStart, lookBackText, sectionBreakIndex) ==
        IF sectionBreakIndex # -1 /\ sectionBreakIndex < phraseIndex
        THEN skipWhitespace(originalText, sectionBreakIndex)
        ELSE fallback(lookBackStart, lastIndexOf(lookBackText, "\n"),
                      lastIndexOf(lookBackText, "."))
      look(lookBackStart, lookBackText) ==
        start(lookBackStart, lookBackText, sectionBreakIndexOf(lookBackText, lookBackStart))
      back(lookBackStart) ==
        look(lookBackStart, substring(originalText, lookBackStart, phraseIndex))
  IN back(Max({0, phraseIndex - 500}))

\* /\n\s*[\-\*]\s/ (the texts are ASCII, the bullet character does not occur)
nextBulletPattern == Cat(<<L("\n"), SP0, Cls({"-", "*"}), spc>>)

\* /\n[A-Z][A-Za-z\s]{10,}\n/
nextHeadingPattern ==
  Cat(<<L("\n"), Cls(UpperChars),
        Rep(Cls(UpperChars \cup LowerChars \cup SpaceChars), 10, Unbounded), L("\n")>>)

\* sectionEndIndex after the look forward: the first double newline or the first role
\* title, the one closest to the phrase
sectionEndIndexOf(lookForwardText, phraseEnd) ==
  LET earlier(sectionEndIndex, index) ==
        IF sectionEndIndex = -1 \/ index < sectionEndIndex THEN index ELSE sectionEndIndex
      double(firstDoubleNewline) ==
        IF firstDoubleNewline # -1 THEN phraseEnd + firstDoubleNewline ELSE -1
      role(sectionEndIndex, index) ==
        IF index # -1 THEN earlier(sectionEndIndex, phraseEnd + index) ELSE sectionEndIndex
  IN role(role(double(indexOf(lookForwardText, "\n\n")),
               searchCS(nextRoleTitlePatterns[1], toLowerCase(lookForwardText))),
          searchCS(nextRoleTitlePatterns[2], toLowerCase(lookForwardText)))

\* snippetEnd when the look forward finds no section end: the next bullet, numbered
\* item or heading, the end of the sentence, or the end of the line
paragraphEndOf(originalText, lookForwardText, lookForwardStart) ==
  LET far == Min({Len(originalText), lookForwardStart + 600})
      sentence(periodIndex) ==
        IF includes(substring(lookForwardText, periodIndex, periodIndex + 10), "\n")
        THEN lookForwardStart + periodIndex ELSE far
      ends(nextBullet, nextNumbered, nextHeading, firstPeriod, firstNewline) ==
        IF nextBullet # -1 THEN lookForwardStart + nextBullet
        ELSE IF nextNumbered # -1 THEN lookForwardStart + nextNumbered
        ELSE IF nextHeading # -1 THEN lookForwardStart + nextHeading
        ELSE IF firstPeriod # -1
        THEN sentence(firstPeriod + RunLen(Cls({"."}), lookForwardText, firstPeriod + 1))
        ELSE IF firstNewline # -1 THEN lookForwardStart + firstNewline
        ELSE far
  IN ends(searchCS(nextBulletPattern, lookForwardText),
          searchCS(numberedSectionPattern, lookForwardText),
          searchCS(nextHeadingPattern, lookForwardText),
          indexOf(lookForwardText, "."), indexOf(lookForwardText, "\n"))

snippetEndOf(originalText, phraseEnd) ==
  LET end(lookForwardText, sectionEndIndex) ==
        IF sectionEndIndex # -1 /\ sectionEndIndex > phraseEnd THEN sectionEndIndex
        ELSE paragraphEndOf(originalText, lookForwardText, phraseEnd)
      look(lookForwardText) == end(lookForwardText, sectionEndIndexOf(lookForwardText, phraseEnd))
  IN look(substring(originalText, phraseEnd, Min({Len(originalText), phraseEnd + 500})))

\* the snippet without a leading role title line
withoutRoleTitle(snippet) ==
  LET cut(titleEnd) == IF titleEnd # -1 THEN trim(substring(snippet, titleEnd, Len(snippet)))
                       ELSE snippet
      strip(ends) == IF ends = {} THEN snippet
                     ELSE cut(indexOfFrom(snippet, "\n", Max(ends) - 1))
  IN strip(Ends(roleTitleAtStart, toLowerCase(snippet), 1))

\* '...' before a snippet that does not start the text and after one that does not end it
withEllipsis(snippet, notFromStart, notToEnd) ==
  (IF notFromStart THEN "..." ELSE "") \o snippet \o (IF notToEnd THEN "..." ELSE "")

extractSnippetFromPhraseIndex(originalText, phraseIndex, phrasePattern) ==
  LET extract(snippetStart, snippetEnd) ==
        withEllipsis(withoutRoleTitle(trim(substring(originalText, snippetStart, snippetEnd))),
                     snippetStart > 0, snippetEnd < Len(originalText))
  IN extract(snippetStartOf(originalText, phraseIndex),
             snippetEndOf(originalText, phraseIndex + Len(phrasePattern)))

-----------------------------------------------------------------------------
(* extractFocusedSnippet: the window around the query words *)

\* words.join(sep)
RECURSIVE joinWith(_, _, _, _)
joinWith(wl, sep, lo, hi) ==
  IF lo > hi THEN ""
  ELSE IF lo = hi THEN wl[lo]
  ELSE LET h == (lo + hi) \div 2
       IN joinWith(wl, sep, lo, h) \o sep \o joinWith(wl, sep, h + 1, hi)

\* the first element of the sequence, in order, that is admissible and has the greatest
\* score among the admissible ones; none when no element is admissible
firstBest(sq, admissible(_), score(_), none) ==
  LET ok == {k \in 1..Len(sq) : admissible(sq[k])}
      best == {k \in ok : \A j \in ok : score(sq[j]) <= score(sq[k])}
  IN IF ok = {} THEN none ELSE sq[Min(best)]

\* the occurrences of the exact phrase, or of the words joined by '-' or by '_'
allPhraseMatches(originalLower, queryWords) ==
  LET at(sep) == indexesOf(originalLower, toLowerCase(joinWith(queryWords, sep, 1, Len(queryWords))))
  IN IF at(" ") # {} THEN at(" ") ELSE IF at("-") # {} THEN at("-") ELSE at("_")

\* the score of a phrase match: the text around it, sentences and context words
phraseMatchScore(originalText, phraseLength, matchIndex) ==
  LET upper(matchText) == Len(matchText) < 50 /\ \A c \in CharsOf(matchText) : c \notin LowerChars
      context(contextText) == \E w \in {"challenge", "prize", "award", "won"} :
                                 includes(contextText, w)
      score(beforeText, afterText) ==
        Len(beforeText) + Len(afterText)
        + (IF includes(beforeText, ".") \/ includes(afterText, ".") THEN 200 ELSE 0)
        + (IF context(toLowerCase(beforeText \o " " \o afterText)) THEN 300 ELSE 0)
        - (IF upper(substring(originalText, Max({0, matchIndex - 20}),
                              matchIndex + phraseLength + 20)) THEN 100 ELSE 0)
  IN score(substring(originalText, Max({0, matchIndex - 100}), matchIndex),
           substring(originalText, matchIndex + phraseLength, matchIndex + phraseLength + 100))

\* bestMatch: the first match with the greatest positive score, or the first match
bestPhraseMatch(originalText, phraseLength, matches) ==
  LET positive(matchIndex) == phraseMatchScore(originalText, phraseLength, matchIndex) > 0
      score(matchIndex) == phraseMatchScore(originalText, phraseLength, matchIndex)
  IN firstBest(SortedSeq(matches), positive, score, Min(matches))

\* originalLower.split(/\s+/) with the index at which each part starts
textWordsOf(s) ==
  LET ok(i) == i >= 1 /\ i <= Len(s) /\ SubSeq(s, i, i) \notin SpaceChars
      endOf(i) == Min({j \in i..Len(s) : ~ok(j + 1)})
      parts(ss) ==
        (IF Len(s) = 0 \/ ~ok(1) THEN <<[word |-> "", start |-> 0]>> ELSE <<>>)
        \o [k \in 1..Len(ss) |-> [word |-> SubSeq(s, ss[k], endOf(ss[k])), start |-> ss[k] - 1]]
        \o (IF Len(s) > 0 /\ ~ok(Len(s))
            THEN <<[word |-> "", start |-> IF Len(ss) = 0 THEN 0 ELSE endOf(ss[Len(ss)])]>>
            ELSE <<>>)
  IN parts(SortedSeq({i \in 1..Len(s) : ok(i) /\ ~ok(i - 1)}))

\* positions: the occurrences of the word, then the starts of the text words that
\* contain the word or are contained in it
wordPositionsOf(originalLower, wordLower) ==
  LET partial(exact, textWords) ==
        {textWords[k].start : k \in {k \in 1..Len(textWords) :
            includes(textWords[k].word, wordLower) \/ includes(wordLower, textWords[k].word)}}
        \ exact
      positions(exact, textWords) == SortedSeq(exact) \o SortedSeq(partial(exact, textWords))
  IN positions(indexesOf(originalLower, wordLower), textWordsOf(originalLower))

\* snippetStartIndex: the first position of the first word at which every other word is
\* within 100 characters, the closest such; else the first position of the first word
\* that was found; -1 when no word was found
snippetStartIndexOf(originalLower, queryWords) ==
  LET MAX_PHRASE_DISTANCE == 100
      dist(a, b) == IF a >= b THEN a - b ELSE b - a
      near(positions, firstPos) ==
        {k \in 1..Len(positions) : dist(positions[k], firstPos) <= MAX_PHRASE_DISTANCE}
      start(all) ==
        LET found == {i \in 1..Len(all) : Len(all[i]) > 0}
            allWordsNearby(firstPos) == \A i \in 2..Len(all) : near(all[i], firstPos) # {}
            maxDistance(firstPos) ==
              Max({0} \cup {dist(all[i][Min(near(all[i], firstPos))], firstPos) : i \in 2..Len(all)})
            score(firstPos) == 1000 - maxDistance(firstPos)
            first == IF found = {} THEN -1 ELSE all[Min(found)][1]
        IN IF found = 1..Len(all) /\ Len(all) > 0
           THEN firstBest(all[1], allWordsNearby, score, first)
           ELSE first
  IN start([i \in 1..Len(queryWords) |->
              wordPositionsOf(originalLower, toLowerCase(queryWords[i]))])

\* the window of 200 characters around the match, moved to a boundary where one is near
focusedWindow(originalText, queryWords, snippetStartIndex) ==
  LET SNIPPET_WINDOW == 200
      max3(a, b, c) == Max({a, b, c})
      atEnd(start, end, firstPeriod, firstNewline, firstSpace) ==
        IF firstPeriod > 0 \/ firstNewline > 0 \/ firstSpace > 0
        THEN substring(originalText, start,
               end + (IF /\ firstPeriod > 0
                         /\ (firstNewline = -1 \/ firstPeriod < firstNewline)
                         /\ (firstSpace = -1 \/ firstPeriod < firstSpace)
                      THEN firstPeriod + 1
                      ELSE IF firstNewline > 0 /\ (firstSpace = -1 \/ firstNewline < firstSpace)
                      THEN firstNewline
                      ELSE firstSpace))
        ELSE ""
      atStart(start, end, boundary) ==
        IF start > 0 /\ boundary > 0 THEN substring(originalText, start - (50 - boundary), end)
        ELSE substring(originalText, start, end)
      ended(start, end, afterEnd) ==
        end < Len(originalText)
        /\ (indexOf(afterEnd, ".") > 0 \/ indexOf(afterEnd, "\n") > 0 \/ indexOf(afterEnd, " ") > 0)
      cut(start, end, beforeStart, afterEnd) ==
        withEllipsis(
          trim(IF ended(start, end, afterEnd)
               THEN atEnd(start, end, indexOf(afterEnd, "."), indexOf(afterEnd, "\n"),
                          indexOf(afterEnd, " "))
               ELSE atStart(start, end, max3(lastIndexOf(beforeStart, "."),
                                             lastIndexOf(beforeStart, "\n"),
                                             lastIndexOf(beforeStart, " ")))),
          start > 0, end < Len(originalText))
      window(start, end) ==
        cut(start, end, substring(originalText, Max({0, start - 50}), start),
            substring(originalText, end, Min({Len(originalText), end + 50})))
  IN window(Max({0, snippetStartIndex - SNIPPET_WINDOW}),
            Min({Len(originalText), snippetStartIndex + Len(queryWords[1]) + SNIPPET_WINDOW}))

extractFocusedSnippet(originalText, queryWords) ==
  LET focused(snippetStartIndex) ==
        IF snippetStartIndex = -1 THEN trim(substring(originalText, 0, 300))
        ELSE focusedWindow(originalText, queryWords, snippetStartIndex)
      phrase(matches) ==
        IF matches # {}
        THEN extractSnippetFromPhraseIndex(
               originalText,
               bestPhraseMatch(originalText, Len(joinWith(queryWords, " ", 1, Len(queryWords))),
                               matches),
               joinWith(queryWords, " ", 1, Len(queryWords)))
        ELSE focused(snippetStartIndexOf(toLowerCase(originalText), queryWords))
  IN phrase(allPhraseMatches(toLowerCase(originalText), queryWords))

\* Step 10: the snippet of the best chunk for the query words
snippetOf(chunkText, queryWords) ==
  LET phrasePattern == joinWith(queryWords, " ", 1, Len(queryWords))
      multi(phraseIndex) ==
        IF phraseIndex # -1
        THEN extractSnippetFromPhraseIndex(chunkText, phraseIndex, phrasePattern)
        ELSE extractFocusedSnippet(chunkText, queryWords)
  IN IF Len(queryWords) = 1 THEN extractFocusedSnippet(chunkText, queryWords)
     ELSE multi(indexOf(normalizeTextForMatching(chunkText), phrasePattern))

-----------------------------------------------------------------------------
(* Step 7: the definition that the synthesis fallback composes *)

platformKinds == W({"platform", "software", "solution"})

categoryPatterns ==
  << Cat(<<WB, L("process"), SP, L("intelligence"), WB>>),
     Cat(<<WB, L("process"), SP, L("mining"), WB>>),
     Cat(<<WB, L("execution"), SP, L("management"), WB>>),
     Cat(<<WB, L("business"), SP, L("process"), SP,
           W({"management", "automation", "optimization"}), WB>>),
     Cat(<<WB, L("enterprise"), SP, platformKinds, WB>>),
     Cat(<<WB, L("analytics"), SP, platformKinds, WB>>),
     Cat(<<WB, L("data"), SP, W({"platform", "analytics"}), WB>>),
     Cat(<<WB, L("automation"), SP, platformKinds, WB>>),
     Cat(<<WB, L("intelligence"), SP, platformKinds, WB>>),
     Word("platform"), Word("software"), Word("solution"), Word("tool"), Word("system") >>

\* match[0] of text.match(re) for an expression with the i flag, lower-cased
firstMatchText(re, text) ==
  LET matched(lower, starts) ==
        SubSeq(lower, Min(starts), Max(Ends(re, lower, Min(starts))) - 1)
      first(lower) == matched(lower, MatchStarts(re, lower))
  IN first(toLowerCase(text))

\* the texts the patterns match, in the order of the patterns, each text once
matchedTexts(patterns, chunkText) ==
  LET hits == {k \in 1..Len(patterns) : test(patterns[k], chunkText)}
      text(k) == trim(firstMatchText(patterns[k], chunkText))
      news == {k \in hits : \A j \in hits : j < k => text(j) # text(k)}
      order == SortedSeq(news)
  IN [i \in 1..Len(order) |-> text(order[i])]

\* found.sort((a, b) => b.length - a.length), a stable sort
sortByLength(found) ==
  LET n == Len(found)
      before(j, i) == Len(found[j]) > Len(found[i]) \/ (Len(found[j]) = Len(found[i]) /\ j < i)
      rank(i) == Cardinality({j \in 1..n : before(j, i)}) + 1
  IN [k \in 1..n |-> found[CHOOSE i \in 1..n : rank(i) = k]]

\* category: the longest category found, with the next one that is no part of it
categoryOf(chunkText) ==
  LET pick(sorted, secondary) ==
        IF secondary # {} /\ Len(sorted[1]) < 25
        THEN sorted[1] \o " and " \o sorted[Min(secondary)]
        ELSE sorted[1]
      choose(sorted) ==
        IF Len(sorted) = 0 THEN ""
        ELSE pick(sorted, {k \in 2..Min({3, Len(sorted)}) :
                             ~includes(sorted[1], sorted[k]) /\ ~includes(sorted[k], sorted[1])})
  IN choose(sortByLength(matchedTexts(categoryPatterns, chunkText)))

organizations ==
  W({"organization", "organizations", "companie", "companies", "businesse", "businesses",
     "enterprise", "enterprises"})

\* what precedes the group ([^.]+) that holds the purpose, in the purpose patterns.  The
\* pattern /provides?\s+([^.]+?)\s+(for|to)\s+(organizations?|...)/ is read at its second
\* group, "for" or "to", which the length check always refuses: it yields no purpose.
purposePatterns ==
  << Cat(<<L("help"), Opt(L("s")), SP, organizations, SP>>),
     Cat(<<L("enable"), Opt(L("s")), SP, organizations, SP, L("to"), SP>>),
     Cat(<<L("allow"), Opt(L("s")), SP, organizations, SP, L("to"), SP>>),
     Cat(<<L("used"), SP, L("to"), SP>>),
     Cat(<<L("designed"), SP, L("to"), SP>>),
     Cat(<<L("analyze"), Opt(L("s")), SP>>),
     Cat(<<L("understand"), SP, L("and"), SP>>),
     Cat(<<L("improve"), SP>>),
     Cat(<<L("optimize"), SP>>),
     Cat(<<L("covering"), SP, L("its"), SP>>) >>

\* the places after a match of the prefix at i where a character other than '.' follows
captureStarts(prefix, lower, i) ==
  {e \in Ends(prefix, lower, i) : e <= Len(lower) /\ SubSeq(lower, e, e) # "."}

\* the group ([^.]+) of the first match of prefix([^.]+) in the text, cleaned: white
\* space collapsed, a trailing comma removed, trimmed; "" when there is no match
purposeTextOf(prefix, chunkText) ==
  LET clean(text) == IF endsWith(trim(text), ",")
                     THEN trim(SubSeq(trim(text), 1, Len(trim(text)) - 1))
                     ELSE trim(text)
      upTo(e, stops) == SubSeq(chunkText, e, Min(stops \cup {Len(chunkText) + 1}) - 1)
      group(e) == upTo(e, {k \in e..Len(chunkText) : SubSeq(chunkText, k, k) = "."})
      capture(lower, starts) ==
        IF starts = {} THEN ""
        ELSE clean(collapseSpaces(group(Max(captureStarts(prefix, lower, Min(starts))))))
      first(lower) ==
        capture(lower, {i \in 1..Len(lower) : captureStarts(prefix, lower, i) # {}})
  IN first(toLowerCase(chunkText))

\* purpose: the first purpose text of 10 to 150 characters
purposeOf(chunkText) ==
  LET fits(k) == /\ Len(purposeTextOf(purposePatterns[k], chunkText)) >= 10
                 /\ Len(purposeTextOf(purposePatterns[k], chunkText)) <= 150
      found(ok) == IF ok = {} THEN "" ELSE purposeTextOf(purposePatterns[Min(ok)], chunkText)
  IN found({k \in 1..Len(purposePatterns) : fits(k)})

domainPatterns ==
  << Cat(<<WB, L("process"), SP, L("mining"), WB>>),
     Cat(<<WB, L("process"), SP, L("intelligence"), WB>>),
     Cat(<<WB, L("execution"), SP, L("management"), WB>>),
     Cat(<<WB, L("operational"), SP, L("data"), WB>>),
     Cat(<<WB, L("enterprise"), SP, L("data"), WB>>),
     Cat(<<WB, L("business"), SP, L("process"), Opt(L("es")), WB>>),
     Cat(<<WB, L("event"), SP, L("log"), Opt(L("s")), WB>>),
     Word("erp"), Word("crm"), Word("sap"), Word("salesforce"), Word("workflow"),
     Word("automation"), Word("optimization"), Word("analytics"), Word("ai"),
     Cat(<<WB, L("machine"), SP, L("learning"), WB>>) >>

\* the words of the list that contain one of the parts
containing(keywords, parts) ==
  filterIdx(keywords, {k \in 1..Len(keywords) : \E w \in parts : includes(keywords[k], w)})

purposeVerbs ==
  Cat(<<BOL, Alt(<<Cat(<<L("help"), Opt(L("s"))>>), Cat(<<L("enable"), Opt(L("s"))>>),
                   Cat(<<L("allow"), Opt(L("s"))>>), Cat(<<L("provide"), Opt(L("s"))>>),
                   Cat(<<L("analyze"), Opt(L("s"))>>), L("understand"), L("improve"),
                   L("optimize")>>)>>)

\* `${subject} is a ${categoryPart} that ${purposePart}.`
synthesizedAnswerOf(subject, chunkText) ==
  LET categoryPart(category, relevantKeywords) ==
        IF category # "" THEN category
        ELSE IF Len(relevantKeywords) > 0
        THEN joinWith(relevantKeywords, " and ", 1, Min({2, Len(relevantKeywords)})) \o " platform"
        ELSE "platform"
      fromKeywords(processKeywords, dataKeywords) ==
        IF Len(processKeywords) > 0 \/ Len(dataKeywords) > 0
        THEN "analyzes " \o (IF Len(dataKeywords) > 0 THEN dataKeywords[1] ELSE "enterprise data")
             \o " to help organizations understand and improve "
             \o (IF Len(processKeywords) > 0 THEN processKeywords[1] ELSE "business processes")
        ELSE "helps organizations analyze and optimize their operations"
      purposePart(purpose, domainKeywords) ==
        IF purpose # ""
        THEN (IF test(purposeVerbs, purpose) THEN "" ELSE "helps organizations ")
             \o toLowerCase(purpose)
        ELSE fromKeywords(containing(domainKeywords, {"process", "business"}),
                          containing(domainKeywords, {"data", "event"}))
      compose(domainKeywords) ==
        subject \o " is a "
        \o categoryPart(categoryOf(chunkText),
                        containing(domainKeywords,
                                   {"process", "intelligence", "mining", "analytics"}))
        \o " that " \o purposePart(purposeOf(chunkText), domainKeywords) \o "."
  IN compose(matchedTexts(domainPatterns, chunkText))

-----------------------------------------------------------------------------
(* The documents that are uploaded and the queries that are asked *)

\* embeddings[i] read past the end of the embeddings array: undefined (an embedding the
\* provider returns is never empty)
Undefined == <<>>

\* A document of the catalog is the sequence of its chunks as chunkText cuts them: the
\* text of each chunk, and the embedding the provider returns when it is asked for that
\* text.
Catalog ==
  [name \in {"acme-guide.txt", "notes.txt", "beta.txt", "intro.txt", "faq.txt",
             "compare.txt", "release.txt", "pricing.txt"} |->
     CASE name = "acme-guide.txt" ->
            << [text |-> "Acme Guide\nThis document provides an overview of Acme.",
                embedding |-> <<1, 0>>],
               [text |-> "Acme connects to event logs and uses AI models.",
                embedding |-> <<4, 3>>],
               [text |-> "6. Difference Between Acme and Beta\nAcme reads logs while Beta reads forms.",
                embedding |-> <<0, 1>>] >>
       [] name = "notes.txt" ->
            << [text |-> "Team notes", embedding |-> <<0, 1>>],
               [text |-> "Acme is a workflow tool.", embedding |-> <<3, 4>>],
               [text |-> "Beta pricing is higher, but the cost varies.",
                embedding |-> <<1, 0>>] >>
       [] name = "beta.txt" ->
            << [text |-> "Beta is a form builder.", embedding |-> <<1, 0>>],
               [text |-> "Beta stores data in tables.", embedding |-> <<1, 0>>] >>
       [] name = "intro.txt" ->
            << [text |-> "Acme is a data platform that helps teams analyze logs.",
                embedding |-> <<1, 0>>] >>
       [] name = "faq.txt" ->
            << [text |-> "Acme vs Beta FAQ", embedding |-> <<4, 3>>],
               [text |-> "What is Acme?", embedding |-> <<0, 1>>] >>
       [] name = "compare.txt" ->
            << [text |-> "Acme reads logs while agentic platforms run tasks.",
                embedding |-> <<0, 1>>],
               [text |-> "Acme has many users.", embedding |-> <<1, 0>>],
               [text |-> "Acme plans work while agentic platforms execute it.",
                embedding |-> <<0, 1>>] >>
       [] name = "release.txt" ->
            << [text |-> "Release notes", embedding |-> <<3, 4>>],
               [text |-> " \n ", embedding |-> Undefined],
               [text |-> "Gamma ships weekly.", embedding |-> <<0, 1>>] >>
       [] name = "pricing.txt" ->
            << [text |-> "1. Plans vs Beta\n--------------\n\nAcme pricing starts at ten.",
                embedding |-> <<1, 0>>] >>]

DocNames == DOMAIN Catalog

\* a.localeCompare(b) < 0 on the names of the catalog
FileOrder ==
  <<"acme-guide.txt", "beta.txt", "compare.txt", "faq.txt", "intro.txt", "notes.txt",
    "pricing.txt", "release.txt">>

fileRank(name) == CHOOSE k \in 1..Len(FileOrder) : FileOrder[k] = name

ChunkTexts == UNION {{Catalog[n][k].text : k \in 1..Len(Catalog[n])} : n \in DocNames}

Queries ==
  { "What is Acme?", "What is?", "What is Acme's pricing?", "-What is Acme vs Beta",
    "Compare Beta and Acme", "What data does Acme use vs Beta", "What data does Acme use",
    "How does Acme use AI", "Zeta vs Omega", "Define Zeta", "Acme pricing", "logs", " ",
    "difference between Acme and agentic platforms" }

\* the queries of a search that begins while another search awaits its embedding
ConcurrentQueries == {"What is Acme?", "Compare Beta and Acme"}

\* the embeddings getEmbedding may deliver for a query
QueryEmbeddings == {<<1, 0>>, <<0, 1>>, <<3, 4>>}

-----------------------------------------------------------------------------
(* What the handler derives from the query text (steps 2.5 and 3 to 3.7) *)

queryFacts(query) ==
  LET facts(normalizedQuery, queryWords, primaryEntity, definitionQuery) ==
        [normalizedQuery |-> normalizedQuery,
         queryWords |-> queryWords,
         isComparisonQueryEarly |-> isComparisonQueryEarly(query),
         earlyEntity |-> extractEntityEarly(query),
         isDefinitionQueryEarly |-> isDefinitionQueryEarly(query),
         intentKeywords |-> detectIntentKeywords(query, normalizedQuery),
         primaryEntity |-> primaryEntity,
         definitionQuery |-> definitionQuery,
         isComparisonQueryForScoring |-> isComparisonQueryForScoring(query),
         isDataQueryForComparison |-> isDataQueryForComparison(query),
         isAIQueryForComparison |-> isAIQueryForComparison(query),
         isDataUsageQuery |-> isDataUsageQuery(query, definitionQuery),
         isAIUsageQuery |-> isAIUsageQuery(query, definitionQuery),
         topicWords |-> topicWordsOf(queryWords, primaryEntity)]
      normalized(normalizedQuery) ==
        facts(normalizedQuery, splitWords(normalizedQuery), extractPrimaryEntity(query),
              detectDefinitionQuery(query))
  IN normalized(normalizeTextForMatching(query))

\* The handler analyses the query and the chunk texts with regular expressions.  The
\* analysis of the queries and texts in play is made once, in Init, and kept in the
\* variable analysis, which no action changes; the steps of the handler read it.
QueryFacts == analysis.queryFacts

TextFacts == analysis.textFacts

PairFacts == analysis.pairFacts

FileFacts == analysis.fileFacts

\* the entity of entity1Pattern: the early entity, or the built-in default
entity1(qf) == IF qf.earlyEntity # Null THEN qf.earlyEntity ELSE "celonis"

\* the subject of the definition steps ("" when they are not active)
subjectOf(query) == QueryFacts[query].definitionQuery.subject

\* definitionQuery.isDefinition && definitionQuery.subject
isActiveDefinition(qf) == qf.definitionQuery.isDefinition /\ qf.definitionQuery.subject # Null

definitionActive(query) == isActiveDefinition(QueryFacts[query])

\* titleText.includes(entityLower) || entityPattern.test(text) ||
\* normalizedTitleText.includes(entityLower)
textMentions(entity, text) ==
  \/ includes(toLowerCase(text), toLowerCase(entity))
  \/ test(entityPattern(entity), text)
  \/ includes(normalizeTextForMatching(text), toLowerCase(entity))

\* fileNameLower.includes(entityLower) || entityPattern.test(fileName)
fileNameMentions(entity, fileName) ==
  includes(toLowerCase(fileName), toLowerCase(entity)) \/ test(entityPattern(entity), fileName)

\* what the handler reads from a chunk text that does not depend on the query
textFacts(text) ==
  [isOverviewOrScope |-> isOverviewOrScope(text),
   hasComparisonSectionHeader |-> hasComparisonSectionHeader(text),
   startsWithNewSectionHeader |-> startsWithNewSectionHeader(text),
   isIntroChunkForPosition |-> isIntroChunkForPosition(text),
   comparisonBonus |-> comparisonBonusOf(text),
   hasAnyComparisonTerms |-> hasAnyComparisonTerms(text),
   headerPenalty |-> headerPenaltyOf(text),
   isBlocked |-> isBlockedForDefinition(text),
   archIndicatorCount |-> archIndicatorCount(text),
   isDataRelated |-> isDataRelated(text),
   isAIRelated |-> isAIRelated(text)]

\* what the handler reads from a chunk text for a given query
pairFacts(qf, text) ==
  LET subject == qf.definitionQuery.subject
      active == isActiveDefinition(qf)
      entity == entity1(qf)
  IN [hasEntity1 |-> test(entityPattern(entity), text),
      scan |-> sectionScan(entity, text),
      mentionsPrimary |-> qf.primaryEntity # Null /\ textMentions(qf.primaryEntity, text),
      foundWords |-> foundWords(qf.queryWords, text),
      explicitTerm |-> hasExplicitTerm(qf.intentKeywords, text),
      marks |-> IF active THEN definitionMarks(subject, text)
                ELSE definitionMarks("?", ""),
      tier1 |-> active /\ hasTier1Pattern(subject, text),
      tier2 |-> active /\ hasEarlyTier2Pattern(subject, text),
      mentionsSubject |-> active /\ test(subjectPattern(subject), text),
      topicFound |-> {k \in 1..Len(qf.topicWords) :
                        topicWordIn(qf.topicWords[k], normalizeTextForMatching(text))},
      snippet |-> snippetOf(text, qf.queryWords),
      synthesized |-> IF active THEN synthesizedAnswerOf(subject, text) ELSE ""]

\* the file name mentions the primary entity of the query
fileFacts(qf, fileName) ==
  qf.primaryEntity # Null /\ fileNameMentions(qf.primaryEntity, fileName)

\* the analysis of the queries and the chunk texts of the catalog
Analysis ==
  LET tables(qfs) ==
        [queryFacts |-> qfs,
         textFacts |-> [t \in ChunkTexts |-> textFacts(t)],
         pairFacts |-> [q \in Queries |-> [t \in ChunkTexts |-> pairFacts(qfs[q], t)]],
         fileFacts |-> [q \in Queries |-> [f \in DocNames |-> fileFacts(qfs[q], f)]]]
  IN tables([q \in Queries |-> queryFacts(q)])

-----------------------------------------------------------------------------
(* Vectors and their grouping by document *)

\* chunkText: the chunks of an uploaded document
chunksOf(name) ==
  [k \in 1..Len(Catalog[name]) |->
     [text |-> Catalog[name][k].text, sourceFile |-> name, chunkIndex |-> k - 1]]

\* the embedding the provider returns for a text
embeddingOf(text) ==
  LET places == UNION {{<<n, k>> : k \in 1..Len(Catalog[n])} : n \in DocNames}
      at == CHOOSE at \in places : Catalog[at[1]][at[2]].text = text
  IN Catalog[at[1]][at[2]].embedding

\* texts.filter(t => t && t.trim().length > 0)
validTexts(texts) == filterIdx(texts, {i \in 1..Len(texts) : Len(trim(texts[i])) > 0})

\* getEmbeddings: the embeddings of the texts that are not empty, in their order
getEmbeddings(texts) ==
  [i \in 1..Len(validTexts(texts)) |-> embeddingOf(validTexts(texts)[i])]

\* vectorStore.addDocument: chunks[i] with embeddings[i] for every chunk
addDocument(chunks, embeddings) ==
  [i \in 1..Len(chunks) |->
     [chunk |-> chunks[i],
      embedding |-> IF i <= Len(embeddings) THEN embeddings[i] ELSE Undefined]]

\* router.post('/single'): the vectors an upload of the document adds to the store
vectorsOf(name) ==
  addDocument(chunksOf(name),
              getEmbeddings([k \in 1..Len(chunksOf(name)) |-> chunksOf(name)[k].text]))

\* the keys of the Map built from the vectors, in insertion order
docNamesOf(vectors) ==
  LET firsts == {i \in 1..Len(vectors) :
                   \A j \in 1..(i - 1) : vectors[j].chunk.sourceFile # vectors[i].chunk.sourceFile}
      order == SortedSeq(firsts)
  IN [k \in 1..Len(order) |-> vectors[order[k]].chunk.sourceFile]

\* the value of the Map for a document: its vectors in array order
docVectorsOf(vectors, docName) ==
  filterIdx(vectors, {i \in 1..Len(vectors) : vectors[i].chunk.sourceFile = docName})

\* [...docVectors].sort((a, b) => a.chunk.chunkIndex - b.chunk.chunkIndex), a stable sort
sortByChunkIndex(docVectors) ==
  LET n == Len(docVectors)
      before(j, i) == \/ docVectors[j].chunk.chunkIndex < docVectors[i].chunk.chunkIndex
                      \/ (docVectors[j].chunk.chunkIndex = docVectors[i].chunk.chunkIndex /\ j < i)
      rank(i) == Cardinality({j \in 1..n : before(j, i)}) + 1
  IN [k \in 1..n |-> docVectors[CHOOSE i \in 1..n : rank(i) = k]]

\* the concatenation of the sequences parts[lo..hi]
RECURSIVE concatRange(_, _, _)
concatRange(parts, lo, hi) ==
  IF lo > hi THEN <<>>
  ELSE IF lo = hi THEN parts[lo]
  ELSE LET h == (lo + hi) \div 2 IN concatRange(parts, lo, h) \o concatRange(parts, h + 1, hi)

\* what a loop over the documents pushes when it pushes perDoc(docName) for each document
pushedPerDocument(vectors, perDoc(_)) ==
  LET names == docNamesOf(vectors)
  IN concatRange([k \in 1..Len(names) |-> perDoc(names[k])], 1, Len(names))

-----------------------------------------------------------------------------
(* Steps 2.5, 2.6 and 2.7 on the vectors *)

\* isComparisonQueryEarly && earlyEntity && !isDefinitionQueryEarly
entityComparisonGuard(query) ==
  /\ QueryFacts[query].isComparisonQueryEarly
  /\ QueryFacts[query].earlyEntity # Null
  /\ ~QueryFacts[query].isDefinitionQueryEarly

\* isComparisonQueryEarly && !isDefinitionQueryEarly
comparisonGuard(query) ==
  QueryFacts[query].isComparisonQueryEarly /\ ~QueryFacts[query].isDefinitionQueryEarly

\* Step 2.5: the documents of which some chunk mentions the entity
eligibleDocs(query, allVectors) ==
  {allVectors[i].chunk.sourceFile : i \in {i \in 1..Len(allVectors) :
                                            PairFacts[query][allVectors[i].chunk.text].hasEntity1}}

\* a step 2.5 that keeps every document
keepsEveryDocument(query, allVectors) == allVectors

strictDocumentFilter(query, allVectors) ==
  filterIdx(allVectors, {i \in 1..Len(allVectors) :
                           allVectors[i].chunk.sourceFile \in eligibleDocs(query, allVectors)})

\* Step 2.6: the chunks of one document at which currentSectionIsMatch holds after the scan
\* of their lines
sectionChunksOf(query, sortedChunks) ==
  LET scan(i) == PairFacts[query][sortedChunks[i].chunk.text].scan
      inMatch(i) == LET hs == {j \in 1..i : scan(j).hasHeader}
                    IN hs # {} /\ scan(Max(hs)).lastIsMatch
  IN filterIdx(sortedChunks, {i \in 1..Len(sortedChunks) : inMatch(i)})

matchingSectionChunks(query, allVectors) ==
  LET perDoc(docName) == sectionChunksOf(query, sortByChunkIndex(docVectorsOf(allVectors, docName)))
  IN pushedPerDocument(allVectors, perDoc)

foundMatchingSection(query, allVectors) ==
  \E i \in 1..Len(allVectors) : PairFacts[query][allVectors[i].chunk.text].scan.anyMatch

sectionAwareRetrieval(query, allVectors) ==
  IF foundMatchingSection(query, allVectors) /\ Len(matchingSectionChunks(query, allVectors)) > 0
  THEN matchingSectionChunks(query, allVectors)
  ELSE allVectors

\* Step 2.7: the categories of the chunks of one document, "section", "other" or "excluded"
categoriesOf(query, sortedChunks) ==
  LET n == Len(sortedChunks)
      headers == {i \in 1..n : TextFacts[sortedChunks[i].chunk.text].hasComparisonSectionHeader}
      startIndex == Min(headers)
      ends == {j \in (startIndex + 1)..n :
                 TextFacts[sortedChunks[j].chunk.text].startsWithNewSectionHeader}
      endIndex == IF ends = {} THEN n + 1 ELSE Min(ends)
      isInComparisonSection(i) == headers # {} /\ i >= startIndex /\ i < endIndex
      hasEntity1(i) == PairFacts[query][sortedChunks[i].chunk.text].hasEntity1
      isOverviewChunk(i) == TextFacts[sortedChunks[i].chunk.text].isOverviewOrScope
  IN [i \in 1..n |->
        IF sortedChunks[i].chunk.chunkIndex = 0 THEN "excluded"
        ELSE IF isOverviewChunk(i) /\ ~isInComparisonSection(i) THEN "excluded"
        ELSE IF ~hasEntity1(i) /\ ~isInComparisonSection(i) THEN "excluded"
        ELSE IF isInComparisonSection(i) THEN "section"
        ELSE "other"]

chunksOfCategory(query, allVectors, category) ==
  LET perDoc(docName) ==
        LET sortedChunks == sortByChunkIndex(docVectorsOf(allVectors, docName))
            cats == categoriesOf(query, sortedChunks)
        IN filterIdx(sortedChunks, {i \in 1..Len(sortedChunks) : cats[i] = category})
  IN pushedPerDocument(allVectors, perDoc)

comparisonSectionChunks(query, allVectors) == chunksOfCategory(query, allVectors, "section")

otherChunks(query, allVectors) == chunksOfCategory(query, allVectors, "other")

-----------------------------------------------------------------------------
(* Cosine similarity (vectorStore.ts) *)

dotProduct(a, b) ==
  LET n == Len(a)
      RECURSIVE sum(_)
      sum(k) == IF k = 0 THEN 0 ELSE a[k] * b[k] + sum(k - 1)
  IN sum(n)

\* Math.sqrt for the squares of integers; the embeddings of the catalog have such norms
sqrtOf(x) == CHOOSE r \in 0..x : r * r = x

lengthMismatch(a, b) == Len(a) # Len(b)

\* dotProduct / (Math.sqrt(normA) * Math.sqrt(normB)), or 0 when the denominator is 0
cosineSimilarity(a, b) ==
  LET denominator == sqrtOf(dotProduct(a, a)) * sqrtOf(dotProduct(b, b))
  IN IF denominator = 0 THEN 0 ELSE (dotProduct(a, b) * Scale) \div denominator

calculateSimilarity(queryEmbedding, docEmbedding) == cosineSimilarity(queryEmbedding, docEmbedding)

-----------------------------------------------------------------------------
(* Steps 5 and 5.5: positions and the document-level relevance filter *)

\* chunksByDocument.get(sourceFile).length
totalChunksOf(allVectors, sourceFile) == Len(docVectorsOf(allVectors, sourceFile))

\* chunkPosition <= percent / 100 for chunkPosition = chunkIndex / totalChunks
positionWithin(allVectors, vector, percent) ==
  100 * vector.chunk.chunkIndex <= percent * totalChunksOf(allVectors, vector.chunk.sourceFile)

\* Math.max(1, Math.ceil(totalChunks * 0.15))
earlyChunkThreshold(totalChunks) ==
  LET c == (15 * totalChunks + 99) \div 100 IN IF c > 1 THEN c ELSE 1

isRelevantDocument(query, allVectors, fileName) ==
  LET documentChunks == docVectorsOf(allVectors, fileName)
      titles == {i \in 1..Len(documentChunks) : documentChunks[i].chunk.chunkIndex = 0}
      mentions(i) == PairFacts[query][documentChunks[i].chunk.text].mentionsPrimary
  IN \/ FileFacts[query][fileName]
     \/ (titles # {} /\ mentions(Min(titles)))
     \/ \E i \in 1..Len(documentChunks) :
          i <= earlyChunkThreshold(Len(documentChunks)) /\ mentions(i)

relevantDocumentNames(query, allVectors) ==
  IF QueryFacts[query].primaryEntity = Null THEN {}
  ELSE {f \in SeqToSet(docNamesOf(allVectors)) : isRelevantDocument(query, allVectors, f)}

vectorsToSearchOf(query, allVectors) ==
  IF relevantDocumentNames(query, allVectors) = {} THEN allVectors
  ELSE filterIdx(allVectors, {i \in 1..Len(allVectors) :
         allVectors[i].chunk.sourceFile \in relevantDocumentNames(query, allVectors)})

-----------------------------------------------------------------------------
(* Step 6: candidate selection and scoring *)

\* an admission rule that skips no chunk
admitsEveryChunk(hasQueryKeywords, semanticSimilarity) == TRUE

\* !hasQueryKeywords && semanticSimilarity < 0.80 makes the loop skip the chunk
isAdmitted(hasQueryKeywords, semanticSimilarity) ==
  hasQueryKeywords \/ semanticSimilarity >= Hundredths(80)

positionBonusOf(query, allVectors, vector) ==
  LET reduced == /\ QueryFacts[query].definitionQuery.isDefinition
                 /\ TextFacts[vector.chunk.text].isIntroChunkForPosition
  IN IF vector.chunk.chunkIndex = 0 THEN (IF reduced THEN Hundredths(10) ELSE Hundredths(50))
     ELSE IF positionWithin(allVectors, vector, 15)
          THEN (IF reduced THEN Hundredths(5) ELSE Hundredths(20))
     ELSE 0

\* the guard of the comparison bonus and the comparison intro penalty
comparisonScoringGuard(query) ==
  /\ QueryFacts[query].isComparisonQueryForScoring
  /\ ~QueryFacts[query].definitionQuery.isDefinition
  /\ ~QueryFacts[query].isDataQueryForComparison
  /\ ~QueryFacts[query].isAIQueryForComparison

comparisonIntroPenaltyOf(allVectors, vector) ==
  (IF positionWithin(allVectors, vector, 15)
      /\ ~TextFacts[vector.chunk.text].hasAnyComparisonTerms
   THEN Hundredths(-30) ELSE 0)
  + TextFacts[vector.chunk.text].headerPenalty

\* the Candidate the loop builds for a vector
candidateOf(query, queryEmbedding, allVectors, vector) ==
  LET qf == QueryFacts[query]
      pf == PairFacts[query][vector.chunk.text]
      num == vector.chunk.chunkIndex
      den == totalChunksOf(allVectors, vector.chunk.sourceFile)
      semanticSimilarity == calculateSimilarity(queryEmbedding, vector.embedding)
      keywordCoverage == IF Len(qf.queryWords) > 0
                         THEN (pf.foundWords * Scale) \div Len(qf.queryWords) ELSE 0
      positionBonus == positionBonusOf(query, allVectors, vector)
      explicitTermBonus == IF pf.explicitTerm THEN Hundredths(30) ELSE 0
      definitionBonus == IF definitionActive(query)
                         THEN definitionBonusOf(pf.marks, num, den) ELSE 0
      definitionPenalty == IF definitionActive(query)
                           THEN definitionPenaltyOf(pf.marks, num, den) ELSE 0
      comparisonBonus == IF comparisonScoringGuard(query)
                         THEN TextFacts[vector.chunk.text].comparisonBonus ELSE 0
      comparisonIntroPenalty == IF comparisonScoringGuard(query)
                                THEN comparisonIntroPenaltyOf(allVectors, vector) ELSE 0
  IN [vector |-> vector,
      semanticSimilarity |-> semanticSimilarity,
      hasQueryKeywords |-> pf.foundWords > 0,
      keywordCoverage |-> keywordCoverage,
      positionBonus |-> positionBonus,
      explicitTermBonus |-> explicitTermBonus,
      definitionBonus |-> definitionBonus,
      comparisonBonus |-> comparisonBonus,
      comparisonIntroPenalty |-> comparisonIntroPenalty,
      finalScore |-> semanticSimilarity + (3 * keywordCoverage) \div 10 + positionBonus
                       + explicitTermBonus + definitionBonus + definitionPenalty
                       + comparisonBonus + comparisonIntroPenalty]

\* a candidate loop without the admission rule
candidatesWithoutAdmission(query, queryEmbedding, allVectors) ==
  LET vectorsToSearch == vectorsToSearchOf(query, allVectors)
  IN [i \in 1..Len(vectorsToSearch) |->
        candidateOf(query, queryEmbedding, allVectors, vectorsToSearch[i])]

\* the candidates array after the loop over vectorsToSearch
candidatesOf(query, queryEmbedding, allVectors) ==
  LET vectorsToSearch == vectorsToSearchOf(query, allVectors)
      all == [i \in 1..Len(vectorsToSearch) |->
                candidateOf(query, queryEmbedding, allVectors, vectorsToSearch[i])]
  IN filterIdx(all, {i \in 1..Len(all) :
                       isAdmitted(all[i].hasQueryKeywords, all[i].semanticSimilarity)})

-----------------------------------------------------------------------------
(* Step 7: the tiers of a definition query and the synthesis fallback *)

\* a Tier-1 pass that finds nothing
noTier1Candidates(query, allVectors, candidates) == <<>>

tier1Candidates(query, allVectors, candidates) ==
  filterIdx(candidates, {i \in 1..Len(candidates) :
    /\ positionWithin(allVectors, candidates[i].vector, 40)
    /\ PairFacts[query][candidates[i].vector.chunk.text].tier1
    /\ ~TextFacts[candidates[i].vector.chunk.text].isBlocked})

\* self.findIndex(c => same chunkIndex and sourceFile) === index
firstOfItsChunk(list, i) ==
  \A j \in 1..(i - 1) :
    ~(/\ list[j].vector.chunk.chunkIndex = list[i].vector.chunk.chunkIndex
      /\ list[j].vector.chunk.sourceFile = list[i].vector.chunk.sourceFile)

tier2Candidates(query, allVectors, candidates) ==
  LET pushed == filterIdx(candidates, {i \in 1..Len(candidates) :
                  /\ positionWithin(allVectors, candidates[i].vector, 25)
                  /\ ~TextFacts[candidates[i].vector.chunk.text].isBlocked
                  /\ PairFacts[query][candidates[i].vector.chunk.text].tier2})
  IN IF Len(tier1Candidates(query, allVectors, candidates)) = 0
     THEN filterIdx(pushed, {i \in 1..Len(pushed) : firstOfItsChunk(pushed, i)})
     ELSE <<>>

\* [...vectorsToSearch].sort(by sourceFile.localeCompare, then by chunkIndex), a stable sort
sortedByPosition(vectorsToSearch) ==
  LET n == Len(vectorsToSearch)
      key(i) == <<fileRank(vectorsToSearch[i].chunk.sourceFile),
                  vectorsToSearch[i].chunk.chunkIndex>>
      before(j, i) == \/ key(j)[1] < key(i)[1]
                      \/ (key(j)[1] = key(i)[1] /\ key(j)[2] < key(i)[2])
                      \/ (key(j) = key(i) /\ j < i)
      rank(i) == Cardinality({j \in 1..n : before(j, i)}) + 1
  IN [k \in 1..n |-> vectorsToSearch[CHOOSE i \in 1..n : rank(i) = k]]

NoVector == [chunk |-> [text |-> "", sourceFile |-> "", chunkIndex |-> -1], embedding |-> <<>>]

\* bestIntroChunk after the loop over sortedByPosition (NoVector for null): the loop ends at
\* the first eligible chunk of index 0 and takes it; otherwise the first eligible chunk with
\* at most two architecture indicators stays
bestIntroChunk(query, allVectors) ==
  LET sorted == sortedByPosition(vectorsToSearchOf(query, allVectors))
      eligible == {i \in 1..Len(sorted) :
                     /\ positionWithin(allVectors, sorted[i], 30)
                     /\ PairFacts[query][sorted[i].chunk.text].mentionsSubject}
      titles == {i \in eligible : sorted[i].chunk.chunkIndex = 0}
      others == {i \in eligible : /\ sorted[i].chunk.chunkIndex # 0
                                  /\ TextFacts[sorted[i].chunk.text].archIndicatorCount <= 2
                                  /\ \A z \in titles : i < z}
  IN IF titles # {} THEN sorted[Min(titles)]
     ELSE IF others # {} THEN sorted[Min(others)]
     ELSE NoVector

-----------------------------------------------------------------------------
(* Data-usage and AI-usage filters, ranking, topic coverage gate, confidence *)

dataRelatedCandidates(candidatesToRank) ==
  filterIdx(candidatesToRank, {i \in 1..Len(candidatesToRank) :
                                 TextFacts[candidatesToRank[i].vector.chunk.text].isDataRelated})

aiRelatedCandidates(candidatesToRank) ==
  filterIdx(candidatesToRank, {i \in 1..Len(candidatesToRank) :
                                 TextFacts[candidatesToRank[i].vector.chunk.text].isAIRelated})

dataUsageFilter(query, candidatesToRank) ==
  IF QueryFacts[query].isDataUsageQuery /\ Len(dataRelatedCandidates(candidatesToRank)) > 0
  THEN dataRelatedCandidates(candidatesToRank) ELSE candidatesToRank

aiUsageFilter(query, candidatesToRank) ==
  IF QueryFacts[query].isAIUsageQuery /\ Len(aiRelatedCandidates(candidatesToRank)) > 0
  THEN aiRelatedCandidates(candidatesToRank) ELSE candidatesToRank

\* candidatesToRank.sort((a, b) => b.finalScore - a.finalScore), a stable sort
sortByFinalScore(list) ==
  LET n == Len(list)
      before(j, i) == \/ list[j].finalScore > list[i].finalScore
                      \/ (list[j].finalScore = list[i].finalScore /\ j < i)
      rank(i) == Cardinality({j \in 1..n : before(j, i)}) + 1
  IN [k \in 1..n |-> list[CHOOSE i \in 1..n : rank(i) = k]]

\* the topic words found in the chunks of the best chunk's document among vectorsToSearch
topicWordsFound(query, vectorsToSearch, sourceFile) ==
  UNION {PairFacts[query][vectorsToSearch[i].chunk.text].topicFound :
           i \in {i \in 1..Len(vectorsToSearch) : vectorsToSearch[i].chunk.sourceFile = sourceFile}}

\* missingTopicWords: the topic words that no chunk of the document holds
missingTopicWords(query, vectorsToSearch, sourceFile) ==
  filterIdx(QueryFacts[query].topicWords,
            {k \in 1..Len(QueryFacts[query].topicWords) :
               k \notin topicWordsFound(query, vectorsToSearch, sourceFile)})

topicGateRejects(query, vectorsToSearch, bestCandidate) ==
  /\ ~QueryFacts[query].definitionQuery.isDefinition
  /\ Len(QueryFacts[query].queryWords) >= 2
  /\ Len(QueryFacts[query].topicWords) > 0
  /\ topicWordsFound(query, vectorsToSearch, bestCandidate.vector.chunk.sourceFile) = {}
  /\ ~(100 * bestCandidate.keywordCoverage >= 66 * Scale)
  /\ ~(bestCandidate.semanticSimilarity >= Hundredths(85))

\* Math.round(Math.min(1.0, finalScore / 3.1) * 100), the confidence in hundredths
confidenceOf(finalScore) ==
  IF 10 * finalScore >= 31 * Scale THEN 100
  ELSE (2000 * finalScore + 31 * Scale) \div (62 * Scale)

-----------------------------------------------------------------------------
(* The responses of POST /api/search *)

\* The answers that are fixed texts, by the kind of the response.  The answer of a
\* "snippet" response is cut from the text of its chunk, the answer of a "synthesized"
\* response is composed from it, and the answer of a "topic_rejected" response names the
\* missing topic words.
FixedAnswer ==
  [kind \in {"no_documents", "no_comparison", "no_definition", "no_relevant"} |->
     CASE kind = "no_documents" ->
            "No documents have been uploaded yet. Please upload documents first before searching."
       [] kind = "no_comparison" -> "No clear comparison found in the provided documents."
       [] kind = "no_definition" -> "No clear definition found in the provided documents."
       [] kind = "no_relevant" -> "No relevant information found in the uploaded documents."]

\* the HTTP status of a response
statusOf(kind) ==
  CASE kind = "bad_request" -> 400
    [] kind = "error" -> 500
    [] OTHER -> 200

\* A response: its kind, its answer, source and confidence fields (the confidence in
\* hundredths) and the vector of the chunk the answer is taken from (NoVector when there
\* is none)
Response(kind, answer, source, confidence, vector) ==
  [status |-> statusOf(kind), kind |-> kind, answer |-> answer, source |-> source,
   confidence |-> confidence, vector |-> vector]

\* a 400 or 500 response, {error: ...}: it has no answer, source or confidence field
ErrorResponse(kind) == Response(kind, "", "", 0, NoVector)

\* a response whose answer is a fixed text
FixedResponse(kind, source) == Response(kind, FixedAnswer[kind], source, 0, NoVector)

\* `No information about "${missingTopicWords.join(', ')}" found in the documents about
\* ${primaryEntity}.`
topicRejectedAnswer(missing, primaryEntity) ==
  "No information about \"" \o joinWith(missing, ", ", 1, Len(missing))
  \o "\" found in the documents"
  \o (IF primaryEntity # Null THEN " about " \o primaryEntity ELSE "") \o "."

\* !query || typeof query !== 'string' || query.trim().length === 0
isInvalidQuery(query) == Len(query) = 0 \/ Len(trim(query)) = 0

-----------------------------------------------------------------------------
(* The handler up to the request for the query embedding *)

\* a store that never counts as empty
someDocuments(allVectors) == FALSE

\* allVectors.length === 0: the early return of a search over an empty store
noDocuments(allVectors) == Len(allVectors) = 0

\* a step 2.7 that always finds a chunk to go on with
alwaysSomeChunk(comparisonSection, others) == FALSE

\* neither comparisonSectionChunks.length > 0 nor otherChunks.length > 0: the branch of
\* step 2.7 that answers "No clear comparison found"
noValidChunks(comparisonSection, others) == Len(comparisonSection) = 0 /\ Len(others) = 0

\* The outcome of the steps before await getEmbedding(query) on the vectors of the store:
\* either the response that ends the request, or the allVectors the scoring continues with
\* and whether that is still the array of the store.
beforeEmbedding(query, vectors) ==
  LET afterFilter == IF entityComparisonGuard(query)
                     THEN strictDocumentFilter(query, vectors) ELSE vectors
      ranSection == entityComparisonGuard(query) /\ Len(afterFilter) > 0
      afterSection == IF ranSection THEN sectionAwareRetrieval(query, afterFilter)
                      ELSE afterFilter
      ranCategorisation == comparisonGuard(query) /\ Len(afterSection) > 0
      inSection == comparisonSectionChunks(query, afterSection)
      others == otherChunks(query, afterSection)
      afterCategorisation == IF ~ranCategorisation THEN afterSection
                             ELSE IF Len(inSection) > 0 THEN inSection
                             ELSE others
      base == [ended |-> FALSE, response |-> ErrorResponse("none"),
               allVectors |-> <<>>, isStoreArray |-> FALSE,
               ranDocFilter |-> FALSE, ranSection |-> FALSE, ranCategorisation |-> FALSE]
  IN IF isInvalidQuery(query)
     THEN [base EXCEPT !.ended = TRUE, !.response = ErrorResponse("bad_request")]
     ELSE IF noDocuments(vectors)
     THEN [base EXCEPT !.ended = TRUE, !.response = FixedResponse("no_documents", "")]
     ELSE IF ranCategorisation /\ noValidChunks(inSection, others)
     THEN [base EXCEPT !.ended = TRUE, !.response = FixedResponse("no_comparison", ""),
                       !.ranDocFilter = entityComparisonGuard(query),
                       !.ranSection = ranSection, !.ranCategorisation = TRUE]
     ELSE [base EXCEPT !.allVectors = afterCategorisation,
                       !.isStoreArray = ~entityComparisonGuard(query) /\ ~ranCategorisation,
                       !.ranDocFilter = entityComparisonGuard(query),
                       !.ranSection = ranSection, !.ranCategorisation = ranCategorisation]

-----------------------------------------------------------------------------
(* The handler after the query embedding has arrived *)

\* The outcome of steps 5 to 10 on allVectors: the response and what the steps computed
afterEmbedding(query, queryEmbedding, allVectors) ==
  LET base(tier) == [response |-> ErrorResponse("error"), tier |-> tier,
                     candidates |-> <<>>, candidatesToRank |-> <<>>,
                     ranDataFilter |-> FALSE, ranAIFilter |-> FALSE]
      \* steps 9 and 10: the best candidate, the topic coverage gate, the answer
      answer(ranked, vectorsToSearch, bestCandidate) ==
        IF topicGateRejects(query, vectorsToSearch, bestCandidate)
        THEN [ranked EXCEPT !.response =
                Response("topic_rejected",
                         topicRejectedAnswer(
                           missingTopicWords(query, vectorsToSearch,
                                             bestCandidate.vector.chunk.sourceFile),
                           QueryFacts[query].primaryEntity),
                         bestCandidate.vector.chunk.sourceFile, 0, NoVector)]
        ELSE [ranked EXCEPT !.response =
                Response("snippet", PairFacts[query][bestCandidate.vector.chunk.text].snippet,
                         bestCandidate.vector.chunk.sourceFile,
                         confidenceOf(bestCandidate.finalScore), bestCandidate.vector)]
      \* step 8: the sorted candidates
      rank(ranked, vectorsToSearch, candidatesToRank) ==
        IF Len(candidatesToRank) = 0
        THEN [ranked EXCEPT !.response = FixedResponse("no_relevant", "")]
        ELSE answer([ranked EXCEPT !.candidatesToRank = candidatesToRank], vectorsToSearch,
                    candidatesToRank[1])
      \* step 7: the synthesis fallback and the exit of the definition block
      fallback(tier, candidates, intro) ==
        IF intro # NoVector
        THEN [base(tier) EXCEPT
                !.response = Response("synthesized",
                                      PairFacts[query][intro.chunk.text].synthesized,
                                      intro.chunk.sourceFile, 70, intro),
                !.candidates = candidates]
        ELSE [base(tier) EXCEPT
                !.response = FixedResponse("no_definition",
                                           IF Len(candidates) > 0
                                           THEN candidates[1].vector.chunk.sourceFile ELSE ""),
                !.candidates = candidates]
      \* steps 7.5 and 7.6 on the candidates the tiers leave
      filtered(tier, vectorsToSearch, candidates, afterTiers) ==
        rank([base(tier) EXCEPT !.candidates = candidates,
                                !.ranDataFilter = QueryFacts[query].isDataUsageQuery,
                                !.ranAIFilter = QueryFacts[query].isAIUsageQuery],
             vectorsToSearch,
             sortByFinalScore(aiUsageFilter(query, dataUsageFilter(query, afterTiers))))
      \* step 7: the tiers of a definition query with a subject
      tiers(vectorsToSearch, candidates, tier1, tier2) ==
        IF ~definitionActive(query)
        THEN filtered("none", vectorsToSearch, candidates, candidates)
        ELSE IF Len(tier1) > 0 THEN filtered("tier1", vectorsToSearch, candidates, tier1)
        ELSE IF Len(tier2) > 0 THEN filtered("tier2", vectorsToSearch, candidates, tier2)
        ELSE fallback("fallback", candidates, bestIntroChunk(query, allVectors))
      \* step 6: the candidates of the vectors to search
      score(vectorsToSearch, candidates) ==
        IF \E i \in 1..Len(vectorsToSearch) :
             lengthMismatch(queryEmbedding, vectorsToSearch[i].embedding)
        THEN base("none")
        ELSE tiers(vectorsToSearch, candidates,
                   tier1Candidates(query, allVectors, candidates),
                   tier2Candidates(query, allVectors, candidates))
  IN score(vectorsToSearchOf(query, allVectors),
           candidatesOf(query, queryEmbedding, allVectors))

-----------------------------------------------------------------------------
(* The document processor: chunkText of utils/documentProcessor.ts *)

\* characters per chunk
CHUNK_SIZE == 1000

\* overlap between chunks
CHUNK_OVERLAP == 200

\* the limit of chunkText on the number of chunks of one text
maxChunks == 10000

\* the limit of multer on the size of an uploaded file: 10 * 1024 * 1024
maxFileSize == 10485760

\* the variables of chunkText before its loop
beforeLoop == [chunks |-> <<>>, startIndex |-> 0, chunkIndex |-> 0]

\* the loop condition of chunkText on a text of the given length
loopCondition(length, v) == v.startIndex < length /\ v.chunkIndex < maxChunks

\* One pass of the while loop of chunkText, and no change once its condition fails.  A
\* text is given by its length: the text of a chunk is text.substring(startIndex,
\* endIndex)
loopPass(length, v) ==
  IF ~loopCondition(length, v) THEN v
  ELSE LET pass(endIndex) ==
             [chunks |-> Append(v.chunks, [chunkIndex |-> v.chunkIndex,
                                           startIndex |-> v.startIndex,
                                           endIndex |-> endIndex]),
              startIndex |-> IF endIndex - CHUNK_OVERLAP <= v.startIndex
                             THEN endIndex
                             ELSE endIndex - CHUNK_OVERLAP,
              chunkIndex |-> v.chunkIndex + 1]
       IN pass(Min({v.startIndex + CHUNK_SIZE, length}))

\* n passes of the loop
RECURSIVE loopPasses(_, _, _)
loopPasses(length, v, n) ==
  IF n = 0 THEN v
  ELSE IF n = 1 THEN loopPass(length, v)
  ELSE LET rest(half) ==
             IF loopCondition(length, half)
             THEN loopPasses(length, half, n - n \div 2)
             ELSE half
       IN rest(loopPasses(length, v, n \div 2))

\* The variables of chunkText when it returns: chunkIndex rises by one in every pass, so
\* the loop makes at most maxChunks passes
afterLoop(length) == loopPasses(length, beforeLoop, maxChunks)

-----------------------------------------------------------------------------
(* The text functions called on their own *)

\* the length of the longest text handed to normalizeTextForMatching
MaxLen == 4

\* the characters of those texts: letters of both cases, a digit, the underscore, white
\* space and punctuation
Alphabet == {"A", "b", "7", "_", " ", "\n", ".", "-"}

RECURSIVE TextsOfLength(_)
TextsOfLength(n) ==
  IF n = 0 THEN {""} ELSE {s \o c : s \in TextsOfLength(n - 1), c \in Alphabet}

Texts == UNION {TextsOfLength(n) : n \in 0..MaxLen}

\* the lengths of the texts handed to chunkText: short texts, texts around the ends of
\* the first chunks, the longest texts of maxChunks chunks and the largest upload
TextLengths ==
  {1, CHUNK_OVERLAP, CHUNK_OVERLAP + 1, CHUNK_SIZE, CHUNK_SIZE + 1,
   2 * CHUNK_SIZE - CHUNK_OVERLAP, 2 * CHUNK_SIZE - CHUNK_OVERLAP + 1,
   maxChunks * (CHUNK_SIZE - CHUNK_OVERLAP) + CHUNK_OVERLAP,
   maxChunks * (CHUNK_SIZE - CHUNK_OVERLAP) + CHUNK_OVERLAP + 1,
   maxFileSize}

\* No request of POST /api/upload/multiple has arrived: no files, no entry in results, no
\* response, no timer
NoUpload ==
  [active |-> FALSE, files |-> <<>>, next |-> 1, results |-> <<>>, headersSent |-> FALSE,
   response |-> "none", timer |-> "none"]

\* No text function has been called
NoCall == [function |-> "none", argument |-> "", results |-> <<>>, returned |-> FALSE]

-----------------------------------------------------------------------------
(* The state machine: the vector store, the search in flight, the last response *)

\* the number of uploads the store may hold
MaxDocs == 2

\* the number of store operations that may run while a search awaits its embedding
MaxInterleaved == 1

\* No search awaits its embedding
NoPending ==
  [active |-> FALSE, query |-> "", snapshot |-> <<>>, allVectors |-> <<>>,
   isStoreArray |-> FALSE, ranDocFilter |-> FALSE, ranSection |-> FALSE,
   ranCategorisation |-> FALSE, interleaved |-> 0]

\* The record of a finished request: the query, the vectors the handler read from the
\* store (snapshot), the allVectors it scored, the embedding of the query, what it
\* computed and the response it sent; the number of store operations that ran while it
\* awaited (interleaved) and whether another search was in flight when it ended
\* (overlapped)
Finished(query, snapshot, allVectors, queryEmbedding, pre, post, overlapped) ==
  [query |-> query, snapshot |-> snapshot, allVectors |-> allVectors,
   queryEmbedding |-> queryEmbedding,
   ranDocFilter |-> pre.ranDocFilter, ranSection |-> pre.ranSection,
   ranCategorisation |-> pre.ranCategorisation,
   ranDataFilter |-> post.ranDataFilter, ranAIFilter |-> post.ranAIFilter,
   tier |-> post.tier, candidates |-> post.candidates,
   candidatesToRank |-> post.candidatesToRank,
   response |-> post.response,
   interleaved |-> pre.interleaved, overlapped |-> overlapped]

\* what a request that ends before scoring leaves in place of the scoring results
NotScored(response) ==
  [response |-> response, tier |-> "none", candidates |-> <<>>, candidatesToRank |-> <<>>,
   ranDataFilter |-> FALSE, ranAIFilter |-> FALSE]

\* No request has finished in the last step
NoRequest ==
  Finished("", <<>>, <<>>, <<>>, NoPending, NotScored(ErrorResponse("none")), FALSE)

\* the number of uploads whose vectors are in the store
uploadsIn(vectors) ==
  Cardinality({i \in 1..Len(vectors) : vectors[i].chunk.chunkIndex = 0})

\* the response of the last step is on its way to the client
responding == last.response.kind # "none"

\* the search has room for one more store operation while it awaits
hasRoom(request) == request.active => request.interleaved < MaxInterleaved

\* a store operation may run now: the model lets store operations interleave with one
\* search in flight, and searches overlap on a store that stays as it is
mayInterleave == ~responding /\ hasRoom(pending) /\ ~concurrent.active

Init ==
  /\ store = <<>>
  /\ pending = NoPending
  /\ concurrent = NoPending
  /\ last = NoRequest
  /\ analysis = Analysis
  /\ upload = NoUpload
  /\ call = NoCall

\* a search in flight after vectorStore.addDocument has pushed the vectors onto the array
\* of the store, which the search still reads when its allVectors is that array
pushedOnto(request, vectors) ==
  IF ~request.active THEN request
  ELSE IF request.isStoreArray
  THEN [request EXCEPT !.allVectors = @ \o vectors, !.snapshot = @ \o vectors,
                       !.interleaved = @ + 1]
  ELSE [request EXCEPT !.interleaved = @ + 1]

\* POST /api/upload of a document
Upload(name) ==
  /\ uploadsIn(store) < MaxDocs
  /\ mayInterleave
  /\ store' = store \o vectorsOf(name)
  /\ pending' = pushedOnto(pending, vectorsOf(name))
  /\ last' = NoRequest
  /\ UNCHANGED <<concurrent, analysis, upload, call>>

\* a search in flight after vectorStore.removeDocument or vectorStore.clear has put a new
\* array in place of the old one
detached(request) ==
  IF request.active
  THEN [request EXCEPT !.isStoreArray = FALSE, !.interleaved = @ + 1]
  ELSE request

\* DELETE /api/documents/:fileName
DeleteDocument(fileName) ==
  /\ mayInterleave
  /\ store' = filterIdx(store, {i \in 1..Len(store) : store[i].chunk.sourceFile # fileName})
  /\ pending' = detached(pending)
  /\ last' = NoRequest
  /\ UNCHANGED <<concurrent, analysis, upload, call>>

\* DELETE /api/documents/clear
ClearDocuments ==
  /\ mayInterleave
  /\ store' = <<>>
  /\ pending' = detached(pending)
  /\ last' = NoRequest
  /\ UNCHANGED <<concurrent, analysis, upload, call>>

\* the request that awaits getEmbedding(query) after the steps before it
awaiting(query, pre) ==
  [active |-> TRUE, query |-> query, snapshot |-> store,
   allVectors |-> pre.allVectors, isStoreArray |-> pre.isStoreArray,
   ranDocFilter |-> pre.ranDocFilter, ranSection |-> pre.ranSection,
   ranCategorisation |-> pre.ranCategorisation,
   interleaved |-> 0]

\* the record of a request that ends before await getEmbedding(query)
endedEarly(query, pre, overlapped) ==
  Finished(query, store, <<>>, <<>>,
           [ranDocFilter |-> pre.ranDocFilter, ranSection |-> pre.ranSection,
            ranCategorisation |-> pre.ranCategorisation, interleaved |-> 0],
           NotScored(pre.response), overlapped)

\* the record of a request that ends after await getEmbedding(query)
resumed(request, queryEmbedding, overlapped) ==
  Finished(request.query, request.snapshot, request.allVectors, queryEmbedding, request,
           afterEmbedding(request.query, queryEmbedding, request.allVectors), overlapped)

\* the record of a request whose getEmbedding(query) throws
failed(request, overlapped) ==
  Finished(request.query, request.snapshot, request.allVectors, <<>>, request,
           NotScored(ErrorResponse("error")), overlapped)

\* POST /api/search up to await getEmbedding(query), when no other search is in flight
SearchBegin(query) ==
  /\ ~pending.active
  /\ ~concurrent.active
  /\ ~responding
  /\ LET begin(pre) ==
           IF pre.ended
           THEN /\ last' = endedEarly(query, pre, FALSE)
                /\ pending' = NoPending
           ELSE /\ last' = NoRequest
                /\ pending' = awaiting(query, pre)
     IN begin(beforeEmbedding(query, store))
  /\ UNCHANGED <<store, concurrent, analysis, upload, call>>

\* a handler that keeps allVectors in a variable of the module, which the search that
\* began last has overwritten
SearchResumeSharingVectors(queryEmbedding) ==
  /\ pending.active
  /\ ~responding
  /\ last' = resumed(IF concurrent.active
                     THEN [pending EXCEPT !.allVectors = concurrent.allVectors]
                     ELSE pending,
                     queryEmbedding, concurrent.active)
  /\ pending' = NoPending
  /\ UNCHANGED <<store, concurrent, analysis, upload, call>>

\* POST /api/search from the arrival of the query embedding to the response
SearchResume(queryEmbedding) ==
  /\ pending.active
  /\ ~responding
  /\ last' = resumed(pending, queryEmbedding, concurrent.active)
  /\ pending' = NoPending
  /\ UNCHANGED <<store, concurrent, analysis, upload, call>>

\* a catch block that scores the chunks against a zero vector
SearchFailWithZeroVector ==
  /\ pending.active
  /\ ~responding
  /\ last' = resumed(pending, <<0, 0>>, concurrent.active)
  /\ pending' = NoPending
  /\ UNCHANGED <<store, concurrent, analysis, upload, call>>

\* getEmbedding throws: the catch block answers 500
SearchFail ==
  /\ pending.active
  /\ ~responding
  /\ last' = failed(pending, concurrent.active)
  /\ pending' = NoPending
  /\ UNCHANGED <<store, concurrent, analysis, upload, call>>

\* POST /api/search up to await getEmbedding(query), while another search awaits its
\* embedding on the store as this search finds it
ConcurrentBegin(query) ==
  /\ pending.active
  /\ pending.interleaved = 0
  /\ ~concurrent.active
  /\ ~responding
  /\ LET begin(pre) ==
           IF pre.ended
           THEN /\ last' = endedEarly(query, pre, TRUE)
                /\ concurrent' = NoPending
           ELSE /\ last' = NoRequest
                /\ concurrent' = awaiting(query, pre)
     IN begin(beforeEmbedding(query, store))
  /\ UNCHANGED <<store, pending, analysis, upload, call>>

\* a search that leaves the vectors it scored in the store
ConcurrentResumeWritingStore(queryEmbedding) ==
  /\ concurrent.active
  /\ ~responding
  /\ last' = resumed(concurrent, queryEmbedding, TRUE)
  /\ concurrent' = NoPending
  /\ store' = concurrent.allVectors
  /\ UNCHANGED <<pending, analysis, upload, call>>

\* the second search in flight: from the arrival of its query embedding to the response
ConcurrentResume(queryEmbedding) ==
  /\ concurrent.active
  /\ ~responding
  /\ last' = resumed(concurrent, queryEmbedding, TRUE)
  /\ concurrent' = NoPending
  /\ UNCHANGED <<store, pending, analysis, upload, call>>

\* the second search in flight: its getEmbedding throws
ConcurrentFail ==
  /\ concurrent.active
  /\ ~responding
  /\ last' = failed(concurrent, TRUE)
  /\ concurrent' = NoPending
  /\ UNCHANGED <<store, pending, analysis, upload, call>>

\* res.json / res.status(...).json: the response leaves the server
ResponseSent ==
  /\ responding
  /\ last' = NoRequest
  /\ UNCHANGED <<store, pending, concurrent, analysis, upload, call>>

Next ==
  \/ ResponseSent
  \/ \E name \in DocNames : Upload(name)
  \/ \E fileName \in DocNames : DeleteDocument(fileName)
  \/ ClearDocuments
  \/ \E query \in Queries : SearchBegin(query)
  \/ \E queryEmbedding \in QueryEmbeddings : SearchResume(queryEmbedding)
  \/ SearchFail
  \/ \E query \in ConcurrentQueries : ConcurrentBegin(query)
  \/ \E queryEmbedding \in QueryEmbeddings : ConcurrentResume(queryEmbedding)
  \/ ConcurrentFail

Spec == Init /\ [][Next]_vars

-----------------------------------------------------------------------------
(* POST /api/upload/multiple as a state machine: the request arrives and arms its
   timer, the loop handles one file per step, the timer may fire between the steps, and
   the handler answers after the last file *)

\* the number of files of one request
MaxFiles == 2

\* req.files: the uploaded files, by their names
FileLists == UNION {[1..n -> DocNames] : n \in 0..MaxFiles}

\* the request arrives: setTimeout(..., 300000), and the 400 response of a request
\* without files, which leaves the timer armed
UploadMultipleBegin(files) ==
  /\ ~upload.active
  /\ uploadsIn(store) + Len(files) <= MaxDocs
  /\ upload' = IF Len(files) = 0
               THEN [NoUpload EXCEPT !.headersSent = TRUE, !.response = "no_files",
                                     !.timer = "armed"]
               ELSE [NoUpload EXCEPT !.active = TRUE, !.files = files, !.timer = "armed"]
  /\ UNCHANGED <<store, pending, concurrent, last, analysis, call>>

\* one pass of the loop over the files whose awaits succeed: the chunks of the file, their
\* embeddings, the check of their number, vectorStore.addDocument and the entry in results
UploadMultipleFile ==
  /\ upload.active
  /\ upload.next <= Len(upload.files)
  /\ LET pass(fileName, chunks, embeddings) ==
           IF Len(embeddings) # Len(chunks)
           THEN /\ upload' = [upload EXCEPT !.next = @ + 1,
                                            !.results = Append(@, [fileName |-> fileName,
                                                                   status |-> "error"])]
                /\ store' = store
           ELSE /\ upload' = [upload EXCEPT !.next = @ + 1,
                                            !.results = Append(@, [fileName |-> fileName,
                                                                   status |-> "success"])]
                /\ store' = store \o addDocument(chunks, embeddings)
         file(fileName) ==
           pass(fileName, chunksOf(fileName),
                getEmbeddings([k \in 1..Len(chunksOf(fileName)) |-> chunksOf(fileName)[k].text]))
     IN file(upload.files[upload.next])
  /\ UNCHANGED <<pending, concurrent, last, analysis, call>>

\* one pass of the loop in which processing the file or getEmbeddings throws: the catch
\* block of the loop puts the error in results
UploadMultipleFileFails ==
  /\ upload.active
  /\ upload.next <= Len(upload.files)
  /\ upload' = [upload EXCEPT !.next = @ + 1,
                              !.results = Append(@, [fileName |-> upload.files[upload.next],
                                                     status |-> "error"])]
  /\ UNCHANGED <<store, pending, concurrent, last, analysis, call>>

\* the callback of the timer, 5 minutes after the request arrived and before
\* clearTimeout: it answers 500 unless the headers are sent
UploadMultipleTimeout ==
  /\ upload.timer = "armed"
  /\ upload' = [upload EXCEPT !.timer = "fired",
                              !.headersSent = TRUE,
                              !.response = IF upload.headersSent THEN @ ELSE "timeout"]
  /\ UNCHANGED <<store, pending, concurrent, last, analysis, call>>

\* after the loop: clearTimeout(timeout) and the response with the results, unless the
\* headers are sent
UploadMultipleEnd ==
  /\ upload.active
  /\ upload.next > Len(upload.files)
  /\ upload' = [upload EXCEPT !.active = FALSE,
                              !.timer = IF @ = "armed" THEN "cleared" ELSE @,
                              !.headersSent = TRUE,
                              !.response = IF upload.headersSent THEN @ ELSE "processed"]
  /\ UNCHANGED <<store, pending, concurrent, last, analysis, call>>

UploadNext ==
  \/ \E files \in FileLists : UploadMultipleBegin(files)
  \/ UploadMultipleFile
  \/ UploadMultipleFileFails
  \/ UploadMultipleTimeout
  \/ UploadMultipleEnd

UploadSpec == Init /\ [][UploadNext]_vars

-----------------------------------------------------------------------------
(* The text functions as a state machine: a function is called on a text, and
   normalizeTextForMatching is called once more on what it returned *)

\* normalizeTextForMatching(text)
Normalize(text) ==
  /\ call.function = "none"
  /\ call' = [function |-> "normalizeTextForMatching", argument |-> text,
              results |-> <<normalizeTextForMatching(text)>>, returned |-> TRUE]
  /\ UNCHANGED <<store, pending, concurrent, last, analysis, upload>>

\* normalizeTextForMatching of the text the last call returned
NormalizeAgain ==
  /\ call.function = "normalizeTextForMatching"
  /\ Len(call.results) = 1
  /\ call' = [call EXCEPT !.results = Append(@, normalizeTextForMatching(call.results[1]))]
  /\ UNCHANGED <<store, pending, concurrent, last, analysis, upload>>

\* chunkText(text, sourceFile, fileSize) on a text of the given length
ChunkText(length) ==
  /\ call.function = "none"
  /\ LET return(v) ==
           call' = [function |-> "chunkText", argument |-> length, results |-> v.chunks,
                    returned |-> ~loopCondition(length, v)]
     IN return(afterLoop(length))
  /\ UNCHANGED <<store, pending, concurrent, last, analysis, upload>>

TextNext ==
  \/ \E text \in Texts : Normalize(text)
  \/ NormalizeAgain
  \/ \E length \in TextLengths : ChunkText(length)

TextSpec == Init /\ [][TextNext]_vars

-----------------------------------------------------------------------------
(* Properties of the last finished request *)

\* the request ended with a 200 response
answered == last.response.kind \notin {"none", "bad_request", "error"}

\* the request was answered over a non-empty store
answeredOverStore == answered /\ last.response.kind # "no_documents"

\* the request went through scoring: it got the query embedding and was not ended before
scored == answeredOverStore /\ last.response.kind # "no_comparison"

\* detectDefinitionQuery classifies the query as a definition query
isDefinitionQuery(query) == QueryFacts[query].definitionQuery.isDefinition

\* one of the comparison steps 2.5, 2.6, 2.7 ran
ranComparisonStep == last.ranDocFilter \/ last.ranSection \/ last.ranCategorisation

\* the vector is a Tier-1 chunk for the query among the vectors: first 40% of its
\* document, "<subject> is a/an", not architecture or comparison-heavy
isTier1Chunk(query, vectors, vector) ==
  /\ 100 * vector.chunk.chunkIndex <= 40 * totalChunksOf(vectors, vector.chunk.sourceFile)
  /\ PairFacts[query][vector.chunk.text].tier1
  /\ ~TextFacts[vector.chunk.text].isBlocked

\* the chunk has no query word and its similarity to the query embedding is below 0.80
failsAdmission(query, queryEmbedding, vector) ==
  /\ PairFacts[query][vector.chunk.text].foundWords = 0
  /\ calculateSimilarity(queryEmbedding, vector.embedding) < Hundredths(80)

-----------------------------------------------------------------------------
\* C1: a definition query over a non-empty store is answered by the tiered resolver
\* only: by a Tier-1 or Tier-2 snippet, by the synthesized definition with confidence
\* 0.7, or by "No clear definition found in the provided documents."; never by general
\* ranking and never by another early exit.
C1_DefinitionQueryUsesTiersOnly ==
  (answeredOverStore /\ isDefinitionQuery(last.query)) =>
     \/ last.response.kind = "snippet" /\ last.tier \in {"tier1", "tier2"}
     \/ last.response.kind = "synthesized" /\ last.response.confidence = 70
     \/ last.response.kind = "no_definition"

\* C2 as stated: for a definition query with a subject, when the store holds a Tier-1
\* chunk, the answer is the snippet of a chunk of the Tier-1 set of the store.
C2_Tier1OfStoreWins ==
  (scored /\ definitionActive(last.query)
     /\ \E i \in 1..Len(last.snapshot) :
          isTier1Chunk(last.query, last.snapshot, last.snapshot[i])) =>
     /\ last.response.kind = "snippet"
     /\ isTier1Chunk(last.query, last.snapshot, last.response.vector)

\* C2 amended: for a definition query with a subject, when a candidate (a chunk that
\* survived the comparison steps, the relevance filter and admission) is a Tier-1 chunk
\* among the vectors the request searches, the answer is the snippet of a Tier-1
\* candidate.
C2_Tier1OfCandidatesWins ==
  (scored /\ definitionActive(last.query)
     /\ \E i \in 1..Len(last.candidates) :
          isTier1Chunk(last.query, last.allVectors, last.candidates[i].vector)) =>
     /\ last.response.kind = "snippet"
     /\ isTier1Chunk(last.query, last.allVectors, last.response.vector)
     /\ \E i \in 1..Len(last.candidates) : last.candidates[i].vector = last.response.vector

\* a definition query answered from Tier 1 over a store of two documents of which only
\* one has a Tier-1 chunk
C2_Witness ==
  /\ scored /\ definitionActive(last.query)
  /\ last.tier = "tier1" /\ last.response.kind = "snippet"
  /\ Cardinality(SeqToSet(docNamesOf(last.snapshot))) = 2
  /\ \E i \in 1..Len(last.snapshot) :
       ~isTier1Chunk(last.query, last.snapshot, last.snapshot[i])
  /\ isTier1Chunk(last.query, last.allVectors, last.response.vector)

\* C3: the comparison steps and the data-usage and AI-usage filters are mutually
\* exclusive: a request runs the steps of one of them at most.
C3_IntentPathsExclusive ==
  answered =>
     /\ ranComparisonStep => (~last.ranDataFilter /\ ~last.ranAIFilter)
     /\ ~(last.ranDataFilter /\ last.ranAIFilter)

\* C4: whenever the raw or the normalized query starts with "what is" or "define", the
\* comparison steps are skipped and the comparison bonus and the comparison intro
\* penalty of every candidate are 0.
C4_DefinitionSuppressesComparison ==
  (answered /\ isDefinitionQuery(last.query)) =>
     /\ ~ranComparisonStep
     /\ \A i \in 1..Len(last.candidates) :
          /\ last.candidates[i].comparisonBonus = 0
          /\ last.candidates[i].comparisonIntroPenalty = 0

\* the entities the queries name
NamedEntities == {"Acme", "Beta", "Zeta", "Omega"}

\* the entities of which the query holds the name as a word
NamedIn == [q \in Queries |-> {e \in NamedEntities : test(entityPattern(e), q)}]

\* the chunk texts that hold the name of the entity as a word
Mentioning == [e \in NamedEntities |-> {t \in ChunkTexts : test(entityPattern(e), t)}]

\* some chunk of the document among the vectors mentions the entity
documentMentions(vectors, sourceFile, e) ==
  \E i \in 1..Len(vectors) :
    vectors[i].chunk.sourceFile = sourceFile /\ vectors[i].chunk.text \in Mentioning[e]

\* the query has a comparison keyword
isComparisonQuery(query) == QueryFacts[query].isComparisonQueryEarly

\* C5 as stated: a comparison query that names an entity E which some document of the
\* store mentions is never answered with a source document that does not mention E.
C5_NamedEntityExcludesDocuments ==
  (answered /\ isComparisonQuery(last.query)) =>
     \A e \in NamedIn[last.query] :
        (\E i \in 1..Len(last.snapshot) : last.snapshot[i].chunk.text \in Mentioning[e]) =>
           \/ last.response.source = ""
           \/ documentMentions(last.snapshot, last.response.source, e)

\* C5 amended: a comparison query that does not start with "what is" or "define" on its
\* raw form and whose extracted entity (the first capitalised token that is no stop
\* word) is E is never answered with a source document that does not mention E.
C5_ExtractedEntityExcludesDocuments ==
  (answered /\ isComparisonQuery(last.query)
     /\ ~QueryFacts[last.query].isDefinitionQueryEarly
     /\ QueryFacts[last.query].earlyEntity # Null) =>
     \/ last.response.source = ""
     \/ \E i \in 1..Len(last.snapshot) :
          /\ last.snapshot[i].chunk.sourceFile = last.response.source
          /\ PairFacts[last.query][last.snapshot[i].chunk.text].hasEntity1

\* a comparison query answered from a document that mentions its entity over a store that
\* also holds a document that does not mention it
C5_Witness ==
  /\ answered /\ isComparisonQuery(last.query)
  /\ ~QueryFacts[last.query].isDefinitionQueryEarly
  /\ QueryFacts[last.query].earlyEntity # Null
  /\ last.response.kind = "snippet"
  /\ \E i \in 1..Len(last.snapshot) :
       /\ last.snapshot[i].chunk.sourceFile = last.response.source
       /\ PairFacts[last.query][last.snapshot[i].chunk.text].hasEntity1
  /\ \E i \in 1..Len(last.snapshot) :
       \A j \in 1..Len(last.snapshot) :
          last.snapshot[j].chunk.sourceFile = last.snapshot[i].chunk.sourceFile =>
             ~PairFacts[last.query][last.snapshot[j].chunk.text].hasEntity1

\* C6: the confidence of every search response lies in [0, 1]; for a ranked answer it is
\* min(1, finalScore / 3.1) rounded to two decimals, finalScore being the sum of the
\* similarity, 0.3 times the coverage and the bonuses and penalties of the best candidate.
C6_ConfidenceInUnitRange ==
  answered =>
     /\ last.response.confidence \in 0..100
     /\ last.response.kind = "snippet" =>
          /\ last.response.confidence = confidenceOf(last.candidatesToRank[1].finalScore)
          /\ last.candidatesToRank[1].vector = last.response.vector

\* C7: a chunk with no query word (exact or stem) and a similarity below 0.80 is never in
\* the candidate list nor in the ranked list, and no ranked answer is taken from it.
C7_AdmissionRule ==
  scored =>
     /\ \A i \in 1..Len(last.candidates) :
          ~failsAdmission(last.query, last.queryEmbedding, last.candidates[i].vector)
     /\ \A i \in 1..Len(last.candidatesToRank) :
          ~failsAdmission(last.query, last.queryEmbedding, last.candidatesToRank[i].vector)
     /\ last.response.kind = "snippet" =>
          ~failsAdmission(last.query, last.queryEmbedding, last.response.vector)

\* a ranked answer over vectors of which one failed admission
C7_Witness ==
  /\ scored /\ last.response.kind = "snippet" /\ last.tier = "none"
  /\ \E i \in 1..Len(last.allVectors) :
       failsAdmission(last.query, last.queryEmbedding, last.allVectors[i])
  /\ Len(last.candidates) > 1

\* the query is a comparison query that does not start with "what is" or "define" on its
\* raw form
isComparisonRequest(query) ==
  QueryFacts[query].isComparisonQueryEarly /\ ~QueryFacts[query].isDefinitionQueryEarly

\* C8 as stated: a comparison query that is no definition query, over a non-empty store,
\* of which the comparison filtering leaves no chunk, is answered "No clear comparison
\* found in the provided documents." with empty source and confidence 0.
C8_NoChunkLeftAnswersNoComparison ==
  (answeredOverStore /\ isComparisonRequest(last.query) /\ ~isDefinitionQuery(last.query)
     /\ Len(last.allVectors) = 0) =>
     /\ last.response.kind = "no_comparison"
     /\ last.response.source = "" /\ last.response.confidence = 0

\* C8 amended: for a comparison query that does not start with "what is" or "define" on
\* its raw form, when the chunk categorisation runs and leaves no valid chunk, the
\* answer is "No clear comparison found in the provided documents." with empty source
\* and confidence 0, given before the query embedding is requested; when the document
\* hard-exclusion already leaves no chunk, the categorisation does not run and the
\* request goes on to scoring, which ends with "No relevant information found ..." or,
\* for a query that is a definition query on its normalized form, "No clear definition
\* found ...".  No other request gets the "No clear comparison found" answer.
C8_CategorisationAnswersNoComparison ==
  /\ (answeredOverStore /\ isComparisonRequest(last.query) /\ Len(last.allVectors) = 0) =>
        IF last.ranCategorisation
        THEN /\ last.response.kind = "no_comparison"
             /\ last.response.source = "" /\ last.response.confidence = 0
             /\ last.queryEmbedding = <<>>
        ELSE /\ last.ranDocFilter /\ ~last.ranSection
             /\ last.response.kind =
                  (IF definitionActive(last.query) THEN "no_definition" ELSE "no_relevant")
             /\ last.response.source = "" /\ last.response.confidence = 0
  /\ (answered /\ last.response.kind = "no_comparison") =>
        /\ isComparisonRequest(last.query) /\ last.ranCategorisation
        /\ Len(last.allVectors) = 0

\* a comparison query whose entity a document mentions, answered "No clear comparison
\* found" after the categorisation
C8_Witness ==
  /\ answered /\ last.response.kind = "no_comparison"
  /\ last.ranDocFilter /\ last.ranCategorisation
  /\ \E i \in 1..Len(last.snapshot) :
       PairFacts[last.query][last.snapshot[i].chunk.text].hasEntity1

\* no chunk the request read from the store passes admission
noChunkAdmitted ==
  \A i \in 1..Len(last.snapshot) :
     failsAdmission(last.query, last.queryEmbedding, last.snapshot[i])

\* C9 as stated: for any query over a non-empty store, when no chunk passes admission,
\* the answer is "No relevant information found in the uploaded documents." with
\* confidence 0.
C9_NothingAdmittedAnswersNoRelevant ==
  (scored /\ noChunkAdmitted) =>
     last.response.kind = "no_relevant" /\ last.response.confidence = 0

\* C9 amended: for a query for which the definition steps are not active (no definition
\* query, or one without a subject), over a non-empty store, when the request is not
\* ended by the "No clear comparison found" answer and no chunk passes admission, the
\* answer is "No relevant information found in the uploaded documents." with empty
\* source and confidence 0.
C9_NothingAdmittedOutsideDefinition ==
  (scored /\ ~definitionActive(last.query) /\ noChunkAdmitted) =>
     /\ last.response.kind = "no_relevant"
     /\ last.response.source = "" /\ last.response.confidence = 0
     /\ Len(last.candidates) = 0

\* a query without a comparison keyword over a non-empty store of which no chunk passes
\* admission
C9_Witness ==
  /\ scored /\ ~definitionActive(last.query) /\ ~isComparisonQuery(last.query)
  /\ Len(last.snapshot) > 0 /\ Len(last.allVectors) > 0
  /\ noChunkAdmitted
  /\ last.response.kind = "no_relevant"

\* the chunk texts that hold the word
WithWord == [w \in {"acme", "pricing", "cost"} |-> {t \in ChunkTexts : test(Word(w), t)}]

\* the store the request read holds one document, which mentions "Acme" and never
\* "pricing" or "cost"
onlyAcmeDocument ==
  /\ Len(last.snapshot) > 0
  /\ \A i \in 1..Len(last.snapshot) :
       /\ last.snapshot[i].chunk.sourceFile = last.snapshot[1].chunk.sourceFile
       /\ last.snapshot[i].chunk.text \notin (WithWord["pricing"] \cup WithWord["cost"])
  /\ \E i \in 1..Len(last.snapshot) : last.snapshot[i].chunk.text \in WithWord["acme"]

\* C10: over a store whose only document mentions "Acme" and never "pricing" or "cost",
\* the query "What is Acme's pricing?" gets the topic-coverage rejection with confidence
\* 0 and that document as source.
C10_PricingQueryIsRejected ==
  (answered /\ last.query = "What is Acme's pricing?" /\ onlyAcmeDocument) =>
     /\ last.response.kind = "topic_rejected"
     /\ last.response.confidence = 0
     /\ last.response.source = last.snapshot[1].chunk.sourceFile

\* a request has just finished: its response is on its way to the client
finished == last.response.kind # "none"

\* C11: a search with a non-blank query over a store that holds no chunk is answered
\* {answer: "No documents have been uploaded yet. Please upload documents first before
\* searching.", source: "", confidence: 0.0}, and the embedding of the query is never
\* requested.
C11_EmptyStoreAnswersNoDocuments ==
  (finished /\ ~isInvalidQuery(last.query) /\ Len(last.snapshot) = 0) =>
     /\ last.response.kind = "no_documents" /\ last.response.status = 200
     /\ last.response.answer =
          "No documents have been uploaded yet. Please upload documents first before searching."
     /\ last.response.source = "" /\ last.response.confidence = 0
     /\ last.queryEmbedding = <<>>

\* a definition query asked of the empty store
C11_Witness ==
  /\ finished /\ last.query = "What is Acme?" /\ Len(last.snapshot) = 0 /\ store = <<>>
  /\ last.response.kind = "no_documents"

-----------------------------------------------------------------------------
(* The chunk a single word points at *)

\* the vectors of the store whose chunk text holds the word as it is written
holding(word, vectors) == {i \in 1..Len(vectors) : includes(vectors[i].chunk.text, word)}

\* the query is one word: no white space in it, and one query word after normalisation
isSingleWord(query) ==
  /\ ~isInvalidQuery(query)
  /\ \A i \in 1..Len(query) : SubSeq(query, i, i) \notin SpaceChars
  /\ Len(QueryFacts[query].queryWords) = 1

\* C12: when the query is a single word that occurs verbatim in exactly one chunk of
\* the store, the source of the response is the file of that chunk and the answer is
\* a part of that chunk's text that contains the word, whatever the similarities and
\* positions of the other chunks are.
C12_SingleWordFindsItsChunk ==
  (/\ finished
   /\ last.response.status = 200
   /\ isSingleWord(last.query)
   /\ Cardinality(holding(last.query, last.snapshot)) = 1) =>
     \A i \in holding(last.query, last.snapshot) :
        /\ last.response.source = last.snapshot[i].chunk.sourceFile
        /\ last.response.vector = last.snapshot[i]
        /\ includes(last.response.answer, last.query)


-----------------------------------------------------------------------------
(* The comparison of Acme with agentic platforms *)

AcmeAndAgentic == "difference between Acme and agentic platforms"

mentionsAcme(text) == includes(toLowerCase(text), "acme")

mentionsAgenticPlatforms(text) == includes(toLowerCase(text), "agentic platforms")

\* the text holds a sentence that names both terms and joins them with "while"
isContrastiveSentence(text) ==
  /\ mentionsAcme(text) /\ mentionsAgenticPlatforms(text)
  /\ test(Word("while"), text)

\* the text names one of the two terms and not the other
mentionsOneTerm(text) == mentionsAcme(text) # mentionsAgenticPlatforms(text)

\* the places of the vector in the ranking
ranksOf(vector) ==
  {k \in 1..Len(last.candidatesToRank) : last.candidatesToRank[k].vector = vector}

\* C13: for the query "difference between Acme and agentic platforms" over a store with
\* a chunk that holds a contrastive sentence naming both terms joined by "while", every
\* such chunk is ranked above every chunk that names only one of the two terms, and
\* the chunk of the response is such a chunk.
C13_ContrastiveSentenceWins ==
  (/\ finished
   /\ last.response.kind # "error"
   /\ last.query = AcmeAndAgentic
   /\ \E i \in 1..Len(last.snapshot) : isContrastiveSentence(last.snapshot[i].chunk.text)) =>
     /\ isContrastiveSentence(last.response.vector.chunk.text)
     /\ \A i, j \in 1..Len(last.snapshot) :
          (/\ isContrastiveSentence(last.snapshot[i].chunk.text)
           /\ mentionsOneTerm(last.snapshot[j].chunk.text)
           /\ ranksOf(last.snapshot[j]) # {}) =>
             \E a \in ranksOf(last.snapshot[i]) : \A b \in ranksOf(last.snapshot[j]) : a < b


\* C14: in a comparison query, a ranked candidate whose text has no contrast language
\* (while, whereas, in contrast, compared to, unlike, rather than, on the other hand,
\* however, but, instead of) has a smaller finalScore than every ranked candidate whose
\* text has contrast language.
C14_ContrastLanguageOutranks ==
  (finished /\ comparisonScoringGuard(last.query)) =>
     \A a, b \in 1..Len(last.candidatesToRank) :
        (/\ hasContrastLanguage(last.candidatesToRank[a].vector.chunk.text)
         /\ ~hasContrastLanguage(last.candidatesToRank[b].vector.chunk.text)) =>
           last.candidatesToRank[b].finalScore < last.candidatesToRank[a].finalScore


-----------------------------------------------------------------------------
(* The chunks the definition block uses *)

isBlockedChunk(vector) == TextFacts[vector.chunk.text].isBlocked

\* the chunks the three tiers of the last request took
usedByTiers ==
  LET tier1 == tier1Candidates(last.query, last.allVectors, last.candidates)
      tier2 == tier2Candidates(last.query, last.allVectors, last.candidates)
  IN {tier1[i].vector : i \in 1..Len(tier1)}
       \cup {tier2[i].vector : i \in 1..Len(tier2)}
       \cup (IF last.response.kind = "synthesized" THEN {last.response.vector} ELSE {})

\* C15: for a definition query, no chunk whose text matches an architecture/positioning
\* indicator or a comparison/explanation indicator is a Tier-1 candidate, a Tier-2
\* candidate or the chunk the synthesis fallback chooses.
C15_BlockedChunksNeverUsed ==
  (finished /\ definitionActive(last.query) /\ last.tier # "none") =>
     \A vector \in usedByTiers : ~isBlockedChunk(vector)


-----------------------------------------------------------------------------
(* The pairing of chunks and embeddings in the store *)

\* C16: after any sequence of uploads, deletes and clears, every entry of the store
\* pairs a chunk with a defined embedding, and that embedding is the one the provider
\* returns for the text of that chunk.
C16_ChunkHasItsOwnEmbedding ==
  \A i \in 1..Len(store) :
     /\ store[i].embedding # Undefined
     /\ store[i].embedding = embeddingOf(store[i].chunk.text)


-----------------------------------------------------------------------------
(* Searches and the shared store *)

\* a step in which a search begins to await its embedding or ends with its response
isSearchStep ==
  \/ ~pending.active /\ pending'.active
  \/ ~concurrent.active /\ concurrent'.active
  \/ last'.response.kind # "none"

\* what a search computes when it runs alone on the vectors of the store (no embedding
\* when getEmbedding throws)
searchAlone(query, queryEmbedding, vectors) ==
  LET alone(pre) ==
        IF pre.ended THEN NotScored(pre.response)
        ELSE IF queryEmbedding = <<>> THEN NotScored(ErrorResponse("error"))
        ELSE afterEmbedding(query, queryEmbedding, pre.allVectors)
  IN alone(beforeEmbedding(query, vectors))

responseAlone(query, queryEmbedding, vectors) ==
  searchAlone(query, queryEmbedding, vectors).response

\* C17: a search never changes the store: the entries and their order are the same after
\* every step of a search as before it, and a search that ran while another search was
\* in flight sends the response it would send alone on that store.
C17_SearchesDoNotInterfere ==
  /\ [][isSearchStep => store' = store]_vars
  /\ [](finished /\ last.overlapped =>
          last.response = responseAlone(last.query, last.queryEmbedding, store))

C17_Witness ==
  /\ finished /\ last.overlapped /\ concurrent.active
  /\ last.response.kind = "snippet"
  /\ concurrent.query # last.query
  /\ Len(store) > 0


-----------------------------------------------------------------------------
(* The failure of the embedding call *)

\* C18: when getEmbedding fails for the query, the request ends with the error response
\* of status 500: it carries no answer, source or confidence, no vector stands in for
\* the query embedding, nothing is scored, and the store stays as it is.
C18_EmbeddingFailureIsAnError ==
  [][(SearchFail \/ ConcurrentFail) =>
       /\ last'.response.kind = "error"
       /\ last'.response.status = 500
       /\ last'.response.answer = "" /\ last'.response.source = ""
       /\ last'.response.confidence = 0 /\ last'.response.vector = NoVector
       /\ last'.queryEmbedding = <<>>
       /\ last'.candidates = <<>>
       /\ store' = store]_vars

C18_Witness ==
  /\ finished
  /\ last.response.status = 500 /\ last.response.kind = "error"
  /\ last.queryEmbedding = <<>>
  /\ Len(store) > 0 /\ last.snapshot = store


-----------------------------------------------------------------------------
(* The answer and the text of the chunk *)

startsWithEllipsis(s) == Len(s) >= 3 /\ SubSeq(s, 1, 3) = "..."

endsWithEllipsis(s) == Len(s) >= 3 /\ SubSeq(s, Len(s) - 2, Len(s)) = "..."

\* the answer is a contiguous part of the text, with or without "..." at either end
isExtractOf(answer, text) ==
  \E from \in {1} \cup (IF startsWithEllipsis(answer) THEN {4} ELSE {}) :
    \E to \in {Len(answer)} \cup (IF endsWithEllipsis(answer) THEN {Len(answer) - 3} ELSE {}) :
       from <= to /\ includes(text, SubSeq(answer, from, to))

\* C19: every answer that is returned with a confidence greater than 0 is a contiguous
\* extract of the original text of the winning chunk, optionally with "..." at either
\* end; no answer is text the handler composed itself.
C19_AnswerIsAnExtract ==
  (finished /\ last.response.confidence > 0) =>
     isExtractOf(last.response.answer, last.response.vector.chunk.text)


-----------------------------------------------------------------------------
(* The search as a function of the query, its embedding and the store *)

-----------------------------------------------------------------------------
(* C21: the normalizer is idempotent *)

\* normalizeTextForMatching has been called on a text and again on what it returned
normalizedTwice ==
  call.function = "normalizeTextForMatching" /\ Len(call.results) = 2

\* C21: for every text x, normalizeTextForMatching(normalizeTextForMatching(x)) equals
\* normalizeTextForMatching(x): the second call returns the text it was given.
C21_NormalizationIsIdempotent ==
  normalizedTwice => call.results[2] = call.results[1]

\* a text with a capital, punctuation and a line break, which the first call changes,
\* has been normalized twice
C21_Witness ==
  /\ normalizedTwice
  /\ call.argument = "A.\nb"
  /\ call.results[1] = "a b"
  /\ call.results[2] = "a b"

-----------------------------------------------------------------------------
(* The snippet of a query whose words occur as a phrase *)

\* queryWords.join(' ')
phrasePatternOf(query) ==
  joinWith(QueryFacts[query].queryWords, " ", 1, Len(QueryFacts[query].queryWords))

\* the answer is a snippet of the winning chunk, for a query of several words that occur
\* as a phrase in the normalized text of that chunk
answeredWithPhrase ==
  /\ finished
  /\ last.response.kind = "snippet"
  /\ Len(QueryFacts[last.query].queryWords) > 1
  /\ includes(normalizeTextForMatching(last.response.vector.chunk.text),
              phrasePatternOf(last.query))

\* C22: for a query of several words whose space-joined normalized words occur as a
\* phrase in the winning chunk, the snippet is cut around the place of that phrase in the
\* original text of the chunk, so the answer holds that occurrence of the phrase.
C22_SnippetHoldsThePhrase ==
  answeredWithPhrase =>
     includes(normalizeTextForMatching(last.response.answer), phrasePatternOf(last.query))

-----------------------------------------------------------------------------
(* The chunk of the synthesis fallback *)

\* the request reached the synthesis fallback: both definition tiers were empty
usedFallback == finished /\ last.tier = "fallback"

\* the chunk lies within the first 30% of its document in the vectors, holds the subject
\* of the query and is chunk 0 or has at most 2 architecture indicators
qualifiesAsIntro(query, vectors, vector) ==
  /\ positionWithin(vectors, vector, 30)
  /\ PairFacts[query][vector.chunk.text].mentionsSubject
  /\ \/ vector.chunk.chunkIndex = 0
     \/ TextFacts[vector.chunk.text].archIndicatorCount <= 2

\* the first chunk that qualifies, in (document name, chunk index) order over the vectors
\* (NoVector when none qualifies)
firstIntroOf(query, vectors) ==
  LET first(sorted) ==
        LET q == {i \in 1..Len(sorted) : qualifiesAsIntro(query, vectors, sorted[i])}
        IN IF q = {} THEN NoVector ELSE sorted[Min(q)]
  IN first(sortedByPosition(vectors))

\* C23: when both definition tiers are empty, the synthesis fallback uses the first chunk,
\* in (document name, chunk index) order over all chunks of the store, that lies within
\* the first 30% of its document, holds the subject and is chunk 0 or has at most 2
\* architecture indicators; no later chunk is chosen when an earlier one qualifies.
C23_FallbackUsesFirstIntroChunk ==
  usedFallback =>
     LET uses(first) ==
           first # NoVector =>
              /\ last.response.kind = "synthesized"
              /\ last.response.vector.chunk = first.chunk
     IN uses(firstIntroOf(last.query, last.snapshot))

-----------------------------------------------------------------------------
(* The chunks of a comparison section in step 2.7 *)

\* the vectors step 2.7 categorises: what steps 2.5 and 2.6 leave of the vectors read
categorised(query, vectors) ==
  IF entityComparisonGuard(query)
  THEN sectionAwareRetrieval(query, strictDocumentFilter(query, vectors))
  ELSE vectors

\* the chunk at place i of the chunks of a document, in chunk index order, lies in the
\* comparison section: at or after the first chunk with a comparison section header and
\* before the next chunk that starts with another section header
insideComparisonSection(sortedChunks, i) ==
  \E h \in 1..i :
     /\ TextFacts[sortedChunks[h].chunk.text].hasComparisonSectionHeader
     /\ \A g \in 1..(h - 1) : ~TextFacts[sortedChunks[g].chunk.text].hasComparisonSectionHeader
     /\ \A j \in (h + 1)..i : ~TextFacts[sortedChunks[j].chunk.text].startsWithNewSectionHeader

\* the vectors of the comparison sections of the documents among the vectors
sectionVectorsOf(vectors) ==
  UNION {LET inSection(sortedChunks) ==
               {sortedChunks[i] : i \in {i \in 1..Len(sortedChunks) :
                                           insideComparisonSection(sortedChunks, i)}}
         IN inSection(sortByChunkIndex(docVectorsOf(vectors, docName)))
         : docName \in SeqToSet(docNamesOf(vectors))}

\* C24: in the comparison chunk categorisation, every chunk inside an identified
\* comparison section is kept in the candidate pool, whatever its chunk index and
\* content: it is among the vectors the handler goes on with after step 2.7.
C24_SectionChunksAreKept ==
  (finished /\ last.ranCategorisation) =>
     sectionVectorsOf(categorised(last.query, last.snapshot)) \subseteq SeqToSet(last.allVectors)

-----------------------------------------------------------------------------
(* The topic coverage gate and the chunks of the document *)

\* the request was answered with the rejection of the topic coverage gate
topicRejected == finished /\ last.response.kind = "topic_rejected"

\* C25: the topic coverage gate tests each topic word against all chunks in the store
\* that belong to the source document of the winning chunk, so the rejection response is
\* returned only if no chunk of that document in the store holds any topic word.
C25_TopicGateReadsWholeDocument ==
  topicRejected => topicWordsFound(last.query, last.snapshot, last.response.source) = {}

-----------------------------------------------------------------------------
(* The position ratio of a scored chunk *)

\* chunkPosition = vector.chunk.chunkIndex / totalChunks as the pair of its numerator and
\* denominator, with totalChunks the number of vectors of the document among the vectors
chunkPositionOf(vectors, vector) ==
  <<vector.chunk.chunkIndex, totalChunksOf(vectors, vector.chunk.sourceFile)>>

\* C26: for every scored candidate of every query type, the position ratio used for the
\* position bonus, the definition tiers and the comparison intro penalty is the chunkIndex
\* of the chunk divided by the number of chunks of its document in the store, and so lies
\* in [0, 1).
C26_PositionRatioOverStore ==
  (finished /\ scored) =>
     \A i \in 1..Len(last.candidates) :
        LET ratio(used, claimed) == /\ used = claimed
                                    /\ 0 <= used[1] /\ used[1] < used[2]
        IN ratio(chunkPositionOf(last.allVectors, last.candidates[i].vector),
                 chunkPositionOf(last.snapshot, last.candidates[i].vector))

-----------------------------------------------------------------------------
(* The chunks of a text *)

\* chunkText has been called on a text
chunked == call.function = "chunkText"

\* the chunks, in their order, leave no character of a text of the given length out
coversText(chunks, length) ==
  /\ Len(chunks) > 0
  /\ chunks[1].startIndex = 0
  /\ \A k \in 1..(Len(chunks) - 1) : chunks[k + 1].startIndex <= chunks[k].endIndex
  /\ chunks[Len(chunks)].endIndex = length

\* the chunks are numbered 0, 1, 2, ... in text order, each holds at most CHUNK_SIZE
\* characters, and consecutive chunks overlap by CHUNK_OVERLAP characters
wellFormedChunks(chunks) ==
  /\ \A k \in 1..Len(chunks) :
        /\ chunks[k].chunkIndex = k - 1
        /\ chunks[k].startIndex < chunks[k].endIndex
        /\ chunks[k].endIndex - chunks[k].startIndex <= CHUNK_SIZE
  /\ \A k \in 1..(Len(chunks) - 1) :
        /\ chunks[k].startIndex < chunks[k + 1].startIndex
        /\ chunks[k + 1].startIndex = chunks[k].endIndex - CHUNK_OVERLAP

\* C27: chunkText ends its loop on every text, and the chunks it returns, numbered 0, 1,
\* 2, ... in text order, together cover every character of the text: each chunk is
\* text[startIndex, endIndex) of at most 1000 characters and consecutive chunks overlap by
\* 200, so no part of an uploaded document is missing from the store.
C27_ChunksCoverTheText ==
  chunked =>
     /\ call.returned
     /\ wellFormedChunks(call.results)
     /\ coversText(call.results, call.argument)

-----------------------------------------------------------------------------
(* The source of a response and the store *)

\* the response of the last step names a document as its source
namesSource == finished /\ last.response.source # ""

\* C28: the source named in a search response is a document that is in the store when
\* the response is sent: a search that was suspended at the query embedding call while a
\* document was deleted, or the store cleared, does not return the removed document as
\* its source.
C28_SourceIsInTheStore ==
  namesSource => \E i \in 1..Len(store) : store[i].chunk.sourceFile = last.response.source

-----------------------------------------------------------------------------
(* The multiple upload after its timeout response *)

\* the request of POST /api/upload/multiple has been answered with 'Upload timeout -
\* request took too long to process'
timedOut == upload.response = "timeout"

\* C29: once a multiple-file upload request has been answered with the 5-minute timeout
\* error, no chunk of any file of that request is added to the store afterwards.
C29_NothingAddedAfterTimeout ==
  [][timedOut => store' = store]_vars

-----------------------------------------------------------------------------
(* The entries of the store *)

\* C30: after any sequence of uploads, deletes and clears, no two entries of the store
\* have the same (sourceFile, chunkIndex) pair, so that the store holds each chunk index
\* of a document exactly once.
C30_ChunkKeysAreUnique ==
  \A i, j \in 1..Len(store) :
    /\ store[i].chunk.sourceFile = store[j].chunk.sourceFile
    /\ store[i].chunk.chunkIndex = store[j].chunk.chunkIndex
    => i = j
====
